---- MODULE Spec2Model ----
(***************************************************************************)
(* Model of aiarr's watch-history consolidation (services/jellyfin.py,     *)
(* services/plex.py), of its Jellyseerr request provider                   *)
(* (providers/jellyseerr.py), of the fetch methods of the two media-server *)
(* adapters, of the schedule, trigger, startup, search, media and request  *)
(* handlers of main.py, and of the recommendation cycle they start.        *)
(*                                                                         *)
(* Python values are modelled in typed slots: a string-valued slot holds a *)
(* TLA+ string and NoneStr for None; an integer slot holds NoneInt for     *)
(* None; an ISO-8601 string is the sequence of its digits and NoneDate is  *)
(* None in such a slot.                                                    *)
(***************************************************************************)
EXTENDS Integers, Sequences, FiniteSets, TLC

\* ------------------------------------------------------------- values
NoneStr == "None"
NoneInt == -1
NoneDate == <<NoneInt>>

Titles == {"A", "B"}
EpisodeTitle == "E1"
EpisodeId == "e1"
Instants == {9, 10}
Kinds == {"Episode", "Series", "Movie", "Other"}
SourceTypes == {"history", "library_favorites", "library_all", "library"}
AttributeFilters == {NoneStr, "name"}

\* A raw event as a media server reports it: its kind, the name it goes by
\* (the series name for an episode), when it was last played (an instant, or
\* NoneInt), its play count and its favourite flag (NoneStr when not reported).
\* What an event reports beside its date: a play count and a favourite flag,
\* each of which may be missing.
UserDatas ==
    {[pc |-> NoneInt, fav |-> NoneStr], [pc |-> 1, fav |-> NoneStr],
     [pc |-> NoneInt, fav |-> "True"], [pc |-> 2, fav |-> "False"]}

Event(kind, name, date, ud) ==
    [kind |-> kind, name |-> name, date |-> date, pc |-> ud.pc, fav |-> ud.fav]

\* Title "A" comes in every variety, a second title "B" and the nameless
\* records in a few.
RawEvents ==
    {Event(k, "A", d, ud) : k \in Kinds, d \in Instants \cup {NoneInt}, ud \in UserDatas}
    \cup {Event(k, "B", d, [pc |-> NoneInt, fav |-> NoneStr]) :
             k \in {"Movie", "Episode"}, d \in {NoneInt, 10}}
    \cup {Event(k, nm, 10, [pc |-> 1, fav |-> NoneStr]) :
             k \in {"Movie", "Episode"}, nm \in {NoneStr, ""}}

\* Python truthiness of an Optional[str]
Truthy(s) == s # NoneStr /\ s # ""
TruthyDate(d) == d # NoneDate /\ d # <<>>

\* Python's str > str on digit strings: lexicographic order
StrGT(a, b) ==
    \E i \in 1..Len(a) :
        /\ i - 1 <= Len(b)
        /\ \A j \in 1..(i - 1) : a[j] = b[j]
        /\ (i > Len(b) \/ a[i] > b[i])

\* A UTC instant as the server's fixed-width ISO-8601 string
IsoStr(t) == <<t \div 10, t % 10>>

\* identifiers the servers give their records
MovieIdOf(name) == "m" \o name
SeriesIdOf(name) == "s" \o name
OwnIdOf(ev) ==
    IF ev.kind = "Episode" THEN EpisodeId
    ELSE IF ev.kind = "Series" THEN SeriesIdOf(ev.name)
    ELSE IF ev.kind = "Movie" THEN MovieIdOf(ev.name)
    ELSE "o" \o ev.name

\* dict lookup by key in the insertion-ordered processed_media_map
HasName(map, name) == \E i \in 1..Len(map) : map[i].name = name
IndexOf(map, name) == CHOOSE i \in 1..Len(map) : map[i].name = name

ItemsFiltered(name, id, type, last_played_date, play_count, is_favorite) ==
    [name |-> name, id |-> id, type |-> type, last_played_date |-> last_played_date,
     play_count |-> play_count, is_favorite |-> is_favorite]

\* ------------------------------------------------------------- Jellyfin
\* The item dictionary Jellyfin's API returns for an event
JellyfinItem(ev) ==
    [Type |-> ev.kind,
     Name |-> IF ev.kind = "Episode" THEN EpisodeTitle ELSE ev.name,
     Id |-> OwnIdOf(ev),
     SeriesName |-> IF ev.kind = "Episode" THEN ev.name ELSE NoneStr,
     SeriesId |-> IF ev.kind = "Episode" THEN SeriesIdOf(ev.name) ELSE NoneStr,
     LastPlayedDate |-> IF ev.date = NoneInt THEN NoneDate ELSE IsoStr(ev.date),
     PlayCount |-> ev.pc,
     IsFavorite |-> ev.fav]

Skip == [skip |-> TRUE, name |-> NoneStr, id |-> NoneStr, type |-> NoneStr]
Keep(name, id, type) == [skip |-> FALSE, name |-> name, id |-> id, type |-> type]

\* an episode filed under its own name and id
JellyfinClassifyOwnName(item) ==
    IF item.Type \in {"Episode", "Series"} THEN Keep(item.Name, item.Id, "tv")
    ELSE IF item.Type = "Movie" THEN Keep(item.Name, item.Id, "movie")
    ELSE Skip

JellyfinClassify(item) ==
    IF item.Type = "Episode" THEN Keep(item.SeriesName, item.SeriesId, "tv")
    ELSE IF item.Type = "Series" THEN Keep(item.Name, item.Id, "tv")
    ELSE IF item.Type = "Movie" THEN Keep(item.Name, item.Id, "movie")
    ELSE Skip

JellyfinPlayCount(item) == IF item.PlayCount = NoneInt THEN 0 ELSE item.PlayCount
JellyfinIsFavorite(item) == IF item.IsFavorite = NoneStr THEN "False" ELSE item.IsFavorite

\* the date of the last item read wins
JellyfinMergeLastRead(map, i, date) ==
    IF TruthyDate(date)
    THEN IF map[i].last_played_date = NoneDate
         THEN [map |-> map, raised |-> TRUE]
         ELSE [map |-> [map EXCEPT ![i].last_played_date = date], raised |-> FALSE]
    ELSE [map |-> map, raised |-> FALSE]

\* the merge of an item into the entity already stored under its name;
\* str > None raises TypeError
JellyfinMerge(map, i, date) ==
    IF TruthyDate(date)
    THEN IF map[i].last_played_date = NoneDate
         THEN [map |-> map, raised |-> TRUE]
         ELSE IF StrGT(date, map[i].last_played_date)
              THEN [map |-> [map EXCEPT ![i].last_played_date = date], raised |-> FALSE]
              ELSE [map |-> map, raised |-> FALSE]
    ELSE [map |-> map, raised |-> FALSE]

\* one iteration of the loop of Jellyfin.get_items_filtered
JellyfinLoopBody(map, item) ==
    LET c == JellyfinClassify(item) IN
    IF c.skip \/ ~Truthy(c.name) THEN [map |-> map, raised |-> FALSE]
    ELSE IF HasName(map, c.name)
         THEN JellyfinMerge(map, IndexOf(map, c.name), item.LastPlayedDate)
         ELSE [map |-> Append(map, ItemsFiltered(c.name, c.id, c.type, item.LastPlayedDate,
                                                 JellyfinPlayCount(item), JellyfinIsFavorite(item))),
               raised |-> FALSE]

\* the names, last entity first
NamesBackward(map) == [i \in 1..Len(map) |-> map[Len(map) + 1 - i].name]

NamesOf(map) == [i \in 1..Len(map) |-> map[i].name]

JellyfinProject(map, filter) == IF Truthy(filter) THEN NamesOf(map) ELSE map

\* ------------------------------------------------------------- Plex
\* A datetime object: wall-clock time and UTC offset (NoneInt: naive)
NoneDT == [wall |-> NoneInt, off |-> NoneInt]
DateTime(wall, off) == [wall |-> wall, off |-> off]

\* the datetime plexapi holds for an instant
PlexDT(t) ==
    IF t = NoneInt THEN NoneDT
    ELSE IF t = 9 THEN DateTime(12, 3)
    ELSE DateTime(t, NoneInt)

_datetime_to_iso(dt) ==
    IF dt = NoneDT THEN NoneDate
    ELSE IF dt.off = NoneInt THEN IsoStr(dt.wall)
    ELSE IsoStr(dt.wall - dt.off)

PlexClass(kind, source) ==
    IF source = "history"
    THEN (IF kind = "Episode" THEN "EpisodeHistory"
          ELSE IF kind = "Movie" THEN "MovieHistory"
          ELSE IF kind = "Series" THEN "Show" ELSE "Other")
    ELSE (IF kind = "Episode" THEN "Episode"
          ELSE IF kind = "Movie" THEN "Movie"
          ELSE IF kind = "Series" THEN "Show" ELSE "Other")

IsHistoryClass(cls) == cls \in {"EpisodeHistory", "MovieHistory"}

PlexRating(fav) == IF fav = NoneStr THEN NoneInt ELSE IF fav = "True" THEN 9 ELSE 8

\* The plexapi object for an event: history rows carry viewedAt only, library
\* objects carry lastViewedAt, viewCount and userRating
PlexItem(ev, source) ==
    LET cls == PlexClass(ev.kind, source) IN
    [cls |-> cls,
     title |-> IF ev.kind = "Episode" THEN EpisodeTitle ELSE ev.name,
     ratingKey |-> OwnIdOf(ev),
     grandparentTitle |-> IF ev.kind = "Episode" THEN ev.name ELSE NoneStr,
     grandparentRatingKey |-> IF ev.kind = "Episode" THEN SeriesIdOf(ev.name) ELSE NoneStr,
     viewedAt |-> IF IsHistoryClass(cls) THEN PlexDT(ev.date) ELSE NoneDT,
     lastViewedAt |-> IF IsHistoryClass(cls) THEN NoneDT ELSE PlexDT(ev.date),
     viewCount |-> IF IsHistoryClass(cls) THEN NoneInt ELSE ev.pc,
     userRating |-> IF IsHistoryClass(cls) THEN NoneInt ELSE PlexRating(ev.fav)]

\* an object of unhandled class filed as a movie
PlexClassifyAnyClass(item, source) ==
    IF source = "history"
    THEN (IF item.cls = "EpisodeHistory"
          THEN Keep(item.grandparentTitle, item.grandparentRatingKey, "tv")
          ELSE Keep(item.title, item.ratingKey, "movie"))
    ELSE IF source \in {"library_favorites", "library_all"}
    THEN (IF item.cls = "Show" THEN Keep(item.title, item.ratingKey, "tv")
          ELSE Keep(item.title, item.ratingKey, "movie"))
    ELSE Skip

PlexClassify(item, source) ==
    IF source = "history"
    THEN (IF item.cls = "EpisodeHistory"
          THEN Keep(item.grandparentTitle, item.grandparentRatingKey, "tv")
          ELSE IF item.cls = "MovieHistory"
          THEN Keep(item.title, item.ratingKey, "movie")
          ELSE Skip)
    ELSE IF source \in {"library_favorites", "library_all"}
    THEN (IF item.cls = "Show" THEN Keep(item.title, item.ratingKey, "tv")
          ELSE IF item.cls = "Movie" THEN Keep(item.title, item.ratingKey, "movie")
          ELSE Skip)
    ELSE Skip

PlexLastPlayed(item, source) ==
    IF source = "history" THEN _datetime_to_iso(item.viewedAt)
    ELSE _datetime_to_iso(item.lastViewedAt)

PlexPlayCount(item, source) == IF source = "history" THEN NoneInt ELSE item.viewCount

PlexIsFavorite(item, source) ==
    IF source = "history" \/ item.userRating = NoneInt THEN NoneStr
    ELSE IF item.userRating >= 9 THEN "True" ELSE "False"

\* the date advances whatever the source of the record
PlexMergeDateAnySource(existing, date, source) ==
    IF TruthyDate(date)
       /\ (~TruthyDate(existing.last_played_date) \/ StrGT(date, existing.last_played_date))
    THEN date
    ELSE existing.last_played_date

PlexMergeDate(existing, date, source) ==
    IF TruthyDate(date) /\ source = "history"
       /\ (~TruthyDate(existing.last_played_date) \/ StrGT(date, existing.last_played_date))
    THEN date
    ELSE existing.last_played_date

PlexMerge(existing, date, play_count, is_favorite, source) ==
    [existing EXCEPT
        !.last_played_date = PlexMergeDate(existing, date, source),
        !.play_count = IF play_count # NoneInt /\ existing.play_count = NoneInt
                       THEN play_count ELSE existing.play_count,
        !.is_favorite = IF is_favorite # NoneStr /\ existing.is_favorite = NoneStr
                        THEN is_favorite ELSE existing.is_favorite]

\* one iteration of the loop of Plex.get_items_filtered
PlexLoopBody(map, item, source) ==
    LET c == PlexClassify(item, source)
        date == PlexLastPlayed(item, source)
        play_count == PlexPlayCount(item, source)
        is_favorite == PlexIsFavorite(item, source)
    IN
    IF c.skip \/ ~Truthy(c.name) THEN map
    ELSE IF HasName(map, c.name)
         THEN [map EXCEPT ![IndexOf(map, c.name)] =
                   PlexMerge(map[IndexOf(map, c.name)], date, play_count, is_favorite, source)]
         ELSE Append(map, ItemsFiltered(c.name, c.id, c.type, date, play_count, is_favorite))

PlexProject(map, filter) ==
    IF Truthy(filter) /\ filter = "name" THEN NamesOf(map) ELSE map

\* ------------------------------------------------------------- JellyseerrProvider
\* APIResponse: data is a payload (a mapping with a results list, a list, or
\* nothing), error the text of its details or NoneStr
NoData == [kind |-> "none", results |-> <<>>]
APIResponse(success, data, message, error, status_code) ==
    [success |-> success, data |-> data, message |-> message, error |-> error,
     status_code |-> status_code]

\* what RequestProviderBase._make_request can return for a request
Responses ==
    {APIResponse(TRUE, [kind |-> "dict", results |-> <<[id |-> 603]>>], NoneStr, NoneStr, 200),
     APIResponse(TRUE, [kind |-> "dict", results |-> <<>>], NoneStr, NoneStr, 200),
     APIResponse(TRUE, NoData, NoneStr, NoneStr, 204),
     APIResponse(TRUE, [kind |-> "list", results |-> <<>>], NoneStr, NoneStr, 200),
     APIResponse(FALSE, NoData, "HTTP error", "Not Found", 404),
     APIResponse(FALSE, NoData, "Request failed", "Connection refused", 500)}

Request(method, path, query, media_id) ==
    [method |-> method, path |-> path, query |-> query, media_id |-> media_id]

\* _make_request issues the request and hands back the response
_make_request(request, response) ==
    [result |-> response, requests |-> <<request>>]

Returned(result) == [result |-> result, requests |-> <<>>]

TruthyInt(k) == k # NoneInt /\ k # 0

\* lookup_media without the check of media_type
LookupMediaAnyType(title, tmdb_id, media_type, response) ==
    IF Truthy(title)
    THEN _make_request(Request("GET", "search", title, NoneInt), response)
    ELSE IF TruthyInt(tmdb_id) /\ Truthy(media_type)
    THEN _make_request(Request("GET", "search/" \o media_type, NoneStr, tmdb_id), response)
    ELSE Returned(APIResponse(FALSE, NoData,
             "Either 'title' or both 'tmdb_id' and 'media_type' must be provided for lookup.",
             NoneStr, 400))

\* lookup_media that searches for any title given, an empty one too
LookupMediaEmptyTitle(title, tmdb_id, media_type, response) ==
    IF title # NoneStr
    THEN _make_request(Request("GET", "search", title, NoneInt), response)
    ELSE IF TruthyInt(tmdb_id) /\ Truthy(media_type)
    THEN IF media_type \notin {"movie", "tv"}
         THEN Returned(APIResponse(FALSE, NoData,
                  "Invalid media_type for tmdb_id lookup. Must be 'movie' or 'tv'.",
                  NoneStr, 400))
         ELSE _make_request(Request("GET", "search/" \o media_type, NoneStr, tmdb_id), response)
    ELSE Returned(APIResponse(FALSE, NoData,
             "Either 'title' or both 'tmdb_id' and 'media_type' must be provided for lookup.",
             NoneStr, 400))

\* JellyseerrProvider.lookup_media(title=, tmdb_id=, media_type=); response is
\* what the server answers if it is asked
lookup_media(title, tmdb_id, media_type, response) ==
    IF Truthy(title)
    THEN _make_request(Request("GET", "search", title, NoneInt), response)
    ELSE IF TruthyInt(tmdb_id) /\ Truthy(media_type)
    THEN IF media_type \notin {"movie", "tv"}
         THEN Returned(APIResponse(FALSE, NoData,
                  "Invalid media_type for tmdb_id lookup. Must be 'movie' or 'tv'.",
                  NoneStr, 400))
         ELSE _make_request(Request("GET", "search/" \o media_type, NoneStr, tmdb_id), response)
    ELSE Returned(APIResponse(FALSE, NoData,
             "Either 'title' or both 'tmdb_id' and 'media_type' must be provided for lookup.",
             NoneStr, 400))

\* the tail of add_media, from the implicit lookup on
AddMediaRequest(media_type, title, lookup_response, post_response) ==
    LET lookup == lookup_media(title, NoneInt, NoneStr, lookup_response)
        \* lookup.data.get("results", []) raises unless data is a mapping
        raises == lookup.result.success /\ lookup.result.data.kind # "dict"
        lookup_data == IF lookup.result.success THEN lookup.result.data.results ELSE <<>>
        media_id == IF Len(lookup_data) > 0 THEN lookup_data[1].id ELSE NoneInt
        post == _make_request(Request("POST", "request", media_type, media_id), post_response)
    IN IF raises
       THEN [result |-> lookup.result, requests |-> lookup.requests, raised |-> TRUE]
       ELSE [result |-> post.result, requests |-> lookup.requests \o post.requests,
             raised |-> FALSE]

AddMediaInvalid(message, error) ==
    [result |-> APIResponse(FALSE, NoData, message, error, 400), requests |-> <<>>,
     raised |-> FALSE]

\* add_media that looks the title up before it validates the media type
AddMediaLookupFirst(media_type, title, lookup_response, post_response) ==
    IF ~Truthy(media_type) \/ ~Truthy(title)
    THEN AddMediaInvalid("item_info must contain 'mediaType' and 'title'", NoneStr)
    ELSE LET r == AddMediaRequest(media_type, title, lookup_response, post_response) IN
         IF media_type \notin {"movie", "tv"} /\ ~r.raised
         THEN [result |-> APIResponse(FALSE, NoData,
                              "Invalid media_type. Must be 'movie' or 'tv'.",
                              "Invalid media_type. Must be 'movie' or 'tv'.", 400),
               requests |-> <<r.requests[1]>>, raised |-> FALSE]
         ELSE r

\* JellyseerrProvider.add_media(item_info) with item_info.get("mediaType")
\* and item_info.get("title")
add_media(media_type, title, lookup_response, post_response) ==
    IF ~Truthy(media_type) \/ ~Truthy(title)
    THEN AddMediaInvalid("item_info must contain 'mediaType' and 'title'", NoneStr)
    ELSE IF media_type \notin {"movie", "tv"}
    THEN AddMediaInvalid("Invalid media_type. Must be 'movie' or 'tv'.",
                         "Invalid media_type. Must be 'movie' or 'tv'.")
    ELSE AddMediaRequest(media_type, title, lookup_response, post_response)

\* what _make_request can return for GET user: the data of a successful
\* answer is a mapping with the users under results, or something else
UserResponses ==
    {APIResponse(TRUE, [kind |-> "dict",
                        results |-> <<[id |-> 1, displayName |-> "alice"],
                                      [id |-> 2, displayName |-> "bob"]>>],
                 NoneStr, NoneStr, 200),
     APIResponse(TRUE, [kind |-> "dict", results |-> <<>>], NoneStr, NoneStr, 200),
     APIResponse(TRUE, [kind |-> "list", results |-> <<>>], NoneStr, NoneStr, 200),
     APIResponse(TRUE, NoData, NoneStr, NoneStr, 204),
     APIResponse(FALSE, NoData, "HTTP error", "Unauthorized", 401),
     APIResponse(FALSE, NoData, "Request failed", "Connection refused", 500)}

\* [user for user in all_users if user.get("displayName") == displayName]
FilterUsers(all_users, displayName) ==
    SelectSeq(all_users, LAMBDA user : user.displayName = displayName)

\* get_users that hands an unexpected payload back with no message
GetUsersNoMessage(displayName, response) ==
    LET made == _make_request(Request("GET", "user", NoneStr, NoneInt), response) IN
    IF response.success /\ response.data.kind = "dict"
    THEN [made EXCEPT !.result.data =
             [kind |-> "list",
              results |-> IF Truthy(displayName)
                          THEN FilterUsers(response.data.results, displayName)
                          ELSE response.data.results]]
    ELSE IF response.success
    THEN [made EXCEPT !.result =
             APIResponse(FALSE, response.data, NoneStr, NoneStr, response.status_code)]
    ELSE made

\* JellyseerrProvider.get_users(displayName=None)
get_users(displayName, response) ==
    LET made == _make_request(Request("GET", "user", NoneStr, NoneInt), response) IN
    IF response.success /\ response.data.kind = "dict"
    THEN [made EXCEPT !.result.data =
             [kind |-> "list",
              results |-> IF Truthy(displayName)
                          THEN FilterUsers(response.data.results, displayName)
                          ELSE response.data.results]]
    ELSE IF response.success
    THEN [made EXCEPT !.result =
             APIResponse(FALSE, response.data,
                         "Unexpected data format from Jellyseerr /user endpoint.",
                         NoneStr, response.status_code)]
    ELSE made

\* "not applicable" treated as a failure
GetQualityProfilesFailing ==
    Returned(APIResponse(FALSE, NoData,
        "Jellyseerr manages quality profiles internally via its Sonarr/Radarr configurations.",
        NoneStr, NoneInt))

\* JellyseerrProvider.get_quality_profiles(): no request, an empty list and
\* an explanation; error and status_code are left at APIResponse's defaults
get_quality_profiles ==
    Returned(APIResponse(TRUE, [kind |-> "list", results |-> <<>>],
        "Jellyseerr manages quality profiles internally via its Sonarr/Radarr configurations.",
        NoneStr, NoneInt))

DisplayNameArgs == {NoneStr, "", "alice", "carol"}

TitleArgs == {NoneStr, "", "Dune"}
TmdbIdArgs == {NoneInt, 0, 603}
MediaTypeArgs == {NoneStr, "", "movie", "tv", "book"}

\* ------------------------------------------------------------- source adapters
\* What an adapter method hands back: None, a list, or an exception
Null == [kind |-> "null", items |-> <<>>]
ListOf(items) == [kind |-> "list", items |-> items]
Raises == [kind |-> "raised", items |-> <<>>]

\* How the media server answers a call: it fails (connection or HTTP error),
\* its body cannot be decoded (Jellyfin), it raises NotFound (plexapi), or it
\* answers with the records it holds
Answer(outcome, events) == [outcome |-> outcome, events |-> events]

Undated == [pc |-> NoneInt, fav |-> NoneStr]
EventLists ==
    {<<>>,
     <<Event("Movie", "A", 9, [pc |-> NoneInt, fav |-> "True"])>>,
     <<Event("Series", "B", NoneInt, Undated), Event("Episode", "A", 10, Undated)>>,
     <<Event("Movie", "A", NoneInt, Undated), Event("Movie", "A", 10, Undated)>>,
     <<Event("Movie", "B", NoneInt, [pc |-> 2, fav |-> "False"]),
       Event("Series", "A", NoneInt, [pc |-> NoneInt, fav |-> "True"]),
       Event("Episode", "A", NoneInt, [pc |-> NoneInt, fav |-> "True"]),
       Event("Movie", "A", NoneInt, [pc |-> NoneInt, fav |-> "True"])>>}

JellyfinAnswers ==
    {Answer("error", <<>>), Answer("bad_json", <<>>)}
    \cup {Answer("ok", events) : events \in EventLists}
PlexAnswers ==
    {Answer("error", <<>>), Answer("not_found", <<>>)}
    \cup {Answer("ok", events) : events \in EventLists}

UrlArgs == {NoneStr, "", "http://server"}
KeyArgs == {NoneStr, "key"}
UserIdArgs == {NoneStr, "", "7", "abc"}
\* int(plex_user_id) succeeds
IsIntString(id) == id \in {"7"}

MapSeq(seq, Op(_)) == [i \in 1..Len(seq) |-> Op(seq[i])]

\* the whole of Jellyfin.get_items_filtered(items, attribute_filter=)
RECURSIVE JellyfinLoop(_, _)
JellyfinLoop(map, items) ==
    IF items = <<>> THEN [map |-> map, raised |-> FALSE]
    ELSE LET step == JellyfinLoopBody(map, Head(items)) IN
         IF step.raised THEN step ELSE JellyfinLoop(step.map, Tail(items))

JellyfinGetItemsFiltered(items, filter) ==
    IF items.kind = "null" \/ items.items = <<>> THEN ListOf(<<>>)
    ELSE LET loop == JellyfinLoop(<<>>, items.items) IN
         IF loop.raised THEN Raises ELSE ListOf(JellyfinProject(loop.map, filter))

\* the whole of Plex.get_items_filtered(items, source_type=, attribute_filter=)
RECURSIVE PlexLoop(_, _, _)
PlexLoop(map, items, source) ==
    IF items = <<>> THEN map
    ELSE PlexLoop(PlexLoopBody(map, Head(items), source), Tail(items), source)

PlexGetItemsFiltered(items, source, filter) ==
    IF items.kind = "null" \/ items.items = <<>> THEN ListOf(<<>>)
    ELSE ListOf(PlexProject(PlexLoop(<<>>, items.items, source), filter))

\* Jellyfin.get_recently_watched(jellyfin_user_id) and
\* Jellyfin.get_favorites(jellyfin_user_id): response.json()["Items"]
JellyfinUserItems(url, key, user_id, answer) ==
    IF ~Truthy(url) \/ ~Truthy(key) \/ ~Truthy(user_id) THEN Null
    ELSE IF answer.outcome = "ok"
    THEN ListOf(MapSeq(answer.events, JellyfinItem))
    ELSE Null

jellyfin_get_recently_watched(url, key, user_id, answer) ==
    JellyfinUserItems(url, key, user_id, answer)

jellyfin_get_favorites(url, key, user_id, answer) ==
    JellyfinUserItems(url, key, user_id, answer)

\* Jellyfin.get_all_items(): response.json().get("Items", [])
jellyfin_get_all_items(url, key, answer) ==
    IF ~Truthy(url) \/ ~Truthy(key) THEN Null
    ELSE IF answer.outcome = "ok"
    THEN ListOf(MapSeq(answer.events, JellyfinItem))
    ELSE Null

\* get_all_items_filtered that hands whatever get_all_items returned on to
\* get_items_filtered
JellyfinAllFilteredUnchecked(url, key, answer, filter) ==
    JellyfinGetItemsFiltered(jellyfin_get_all_items(url, key, answer), filter)

\* Jellyfin.get_all_items_filtered(attribute_filter=)
jellyfin_get_all_items_filtered(url, key, answer, filter) ==
    LET items == jellyfin_get_all_items(url, key, answer) IN
    IF items.kind = "null" THEN Null
    ELSE JellyfinGetItemsFiltered(items, filter)

\* Plex(limit=10)
PlexDefaultLimit == 10
LimitArgs == {NoneInt, 0, 1}

HistoryItem(ev) == PlexItem(ev, "history")
LibraryItem(ev) == PlexItem(ev, "library_all")
Take(seq, n) == SubSeq(seq, 1, IF n < Len(seq) THEN n ELSE Len(seq))

\* Plex.get_recently_watched(plex_user_id), with to_json_output left False
plex_get_recently_watched(connected, user_id, answer) ==
    IF ~connected THEN Null
    ELSE IF ~Truthy(user_id) THEN Null
    ELSE IF ~IsIntString(user_id) THEN Null
    ELSE IF answer.outcome = "ok"
    THEN ListOf(SelectSeq(MapSeq(answer.events, HistoryItem),
                          LAMBDA item : IsHistoryClass(item.cls)))
    ELSE IF answer.outcome = "not_found" THEN ListOf(<<>>)
    ELSE Null

\* every highly rated item, whatever the limit
PlexFavoritesUnlimited(connected, limit, answer) ==
    IF ~connected THEN Null
    ELSE IF answer.outcome = "ok"
    THEN ListOf(SelectSeq(MapSeq(answer.events, LibraryItem),
                          LAMBDA item : /\ item.userRating # NoneInt
                                        /\ item.userRating >= 9
                                        /\ item.cls \in {"Movie", "Show"}))
    ELSE Null

\* Plex.get_favorites(plex_user_id, limit=): the first current_limit library
\* items rated 9 or more
plex_get_favorites(connected, limit, answer) ==
    LET current_limit == IF limit # NoneInt THEN limit ELSE PlexDefaultLimit IN
    IF ~connected THEN Null
    ELSE IF answer.outcome = "ok"
    THEN ListOf(Take(SelectSeq(MapSeq(answer.events, LibraryItem),
                               LAMBDA item : /\ item.userRating # NoneInt
                                             /\ item.userRating >= 9
                                             /\ item.cls \in {"Movie", "Show"}),
                     current_limit))
    ELSE Null

\* Plex.get_all_items(): the movies and shows of the library sections
plex_get_all_items(connected, answer) ==
    IF ~connected THEN Null
    ELSE IF answer.outcome = "ok"
    THEN ListOf(SelectSeq(MapSeq(answer.events, LibraryItem),
                          LAMBDA item : item.cls \in {"Movie", "Show"}))
    ELSE Null

\* Plex.get_all_items_filtered(attribute_filter=), with to_json_output left False
plex_get_all_items_filtered(connected, answer, filter) ==
    LET raw_plex_objects == plex_get_all_items(connected, answer) IN
    IF raw_plex_objects.kind = "null" THEN Null
    ELSE PlexGetItemsFiltered(raw_plex_objects, "library_all", filter)

\* ------------------------------------------------------------- schedules
\* The saved searches, the cron settings a schedule request can carry (the
\* hour field: a literal or the wildcard) and the job ids a trigger can name
SearchIds == {1, 2}
Crons == {"*", "6"}
func_name == "get_similar_media"
\* job_id = f"{func_name}_{search_id}"
JobIdOf(search_id) == func_name \o "_" \o ToString(search_id)
JobIdArgs == {JobIdOf(search_id) : search_id \in SearchIds} \cup {"get_similar_media_9"}

\* the schedule table of the database: one row per ScheduleEntry
NoRow == [search_id |-> NoneInt, job_id |-> NoneStr, func_name |-> NoneStr,
          hour |-> NoneStr, enabled |-> FALSE, kwargs |-> [search_id |-> NoneInt]]
\* schedule_data: the cron fields, enabled, and the kwargs of the job, which
\* name the search of the path
ScheduleData(search_id, hour, enabled) ==
    [hour |-> hour, enabled |-> enabled, kwargs |-> [search_id |-> search_id]]

get_schedule_by_search_id(rows, search_id) ==
    IF \E i \in 1..Len(rows) : rows[i].search_id = search_id
    THEN rows[CHOOSE i \in 1..Len(rows) : rows[i].search_id = search_id]
    ELSE NoRow

\* db.update_schedule, db.add_schedule: the table afterwards and the id of
\* the row written
update_schedule(rows, search_id, update_data) ==
    [rows |-> [i \in 1..Len(rows) |->
                  IF rows[i].search_id = search_id
                  THEN [rows[i] EXCEPT !.hour = update_data.hour,
                                       !.enabled = update_data.enabled,
                                       !.kwargs = update_data.kwargs]
                  ELSE rows[i]],
     schedule_id |-> search_id]

add_schedule(rows, search_id, job_id, func, schedule_data) ==
    [rows |-> Append(rows, [search_id |-> search_id, job_id |-> job_id, func_name |-> func,
                            hour |-> schedule_data.hour, enabled |-> schedule_data.enabled,
                            kwargs |-> schedule_data.kwargs]),
     schedule_id |-> search_id]

\* db.delete_schedule_by_search_id: the table afterwards and whether a row went
delete_schedule_by_search_id(rows, search_id) ==
    [rows |-> SelectSeq(rows, LAMBDA row : row.search_id # search_id),
     deleted |-> \E i \in 1..Len(rows) : rows[i].search_id = search_id]

\* the live scheduler's registry: a job per registration
Job(row) == [id |-> row.job_id, trigger |-> row.hour, search_id |-> row.search_id]
HasJob(jobs, job_id) == \E i \in 1..Len(jobs) : jobs[i].id = job_id
EnabledRows(rows) == SelectSeq(rows, LAMBDA row : row.enabled)

\* a registration that adds the job beside one of the same id
RegisterBeside(jobs, row) == Append(jobs, Job(row))

\* registration is keyed by job_id: a job_id that is live has its trigger
\* replaced
Register(jobs, row) ==
    IF HasJob(jobs, row.job_id)
    THEN [i \in 1..Len(jobs) |-> IF jobs[i].id = row.job_id THEN Job(row) ELSE jobs[i]]
    ELSE Append(jobs, Job(row))

RECURSIVE RegisterAll(_, _)
RegisterAll(jobs, rows) ==
    IF rows = <<>> THEN jobs
    ELSE RegisterAll(Register(jobs, Head(rows)), Tail(rows))

\* Schedule.load_schedules(): the jobs of rows no longer enabled go, every
\* enabled row is registered; a failure leaves the registry as it was
load_schedules(rows, jobs, load_ok) ==
    LET enabled == EnabledRows(rows)
        kept == SelectSeq(jobs, LAMBDA job :
                    \E i \in 1..Len(enabled) : enabled[i].job_id = job.id)
    IN IF load_ok
       THEN [jobs |-> RegisterAll(kept, enabled), raised |-> FALSE,
             replaced |-> Len(kept) > 0]
       ELSE [jobs |-> jobs, raised |-> TRUE, replaced |-> FALSE]

\* str.lower() and the substring test of Python's "in"
UpperCase == "ABCDEFGHIJKLMNOPQRSTUVWXYZ"
LowerCase == "abcdefghijklmnopqrstuvwxyz"
LowerChar(c) ==
    IF \E i \in 1..Len(UpperCase) : SubSeq(UpperCase, i, i) = c
    THEN LET i == CHOOSE i \in 1..Len(UpperCase) : SubSeq(UpperCase, i, i) = c
         IN SubSeq(LowerCase, i, i)
    ELSE c
RECURSIVE Lower(_)
Lower(str) ==
    IF Len(str) = 0 THEN ""
    ELSE LowerChar(SubSeq(str, 1, 1)) \o Lower(SubSeq(str, 2, Len(str)))
Contains(str, sub) ==
    \E i \in 1..(Len(str) - Len(sub) + 1) : SubSeq(str, i, i + Len(sub) - 1) = sub

\* what an endpoint answers: the HTTP status, and the success flag and the
\* message or detail of its body
HttpResponse(status, success, detail) ==
    [status |-> status, success |-> success, detail |-> detail]
NoResponse == HttpResponse(NoneInt, FALSE, NoneStr)

\* startup_event that lets a failure of the scheduler out
StartupUncaught(rows, jobs, is_running, start_ok, load_ok) ==
    IF is_running
    THEN [running |-> TRUE, jobs |-> jobs, reload |-> "none", log |-> "none",
          replaced |-> FALSE, raised |-> FALSE]
    ELSE IF ~start_ok
    THEN [running |-> FALSE, jobs |-> jobs, reload |-> "failed", log |-> "none",
          replaced |-> FALSE, raised |-> TRUE]
    ELSE LET loaded == load_schedules(rows, jobs, load_ok) IN
         [running |-> TRUE, jobs |-> loaded.jobs,
          reload |-> IF loaded.raised THEN "failed" ELSE "ok",
          log |-> IF loaded.raised THEN "none" ELSE "info",
          replaced |-> loaded.replaced, raised |-> loaded.raised]

\* startup_event(): start the scheduler unless it runs already, then load the
\* schedules; an exception of either is logged
startup_event(rows, jobs, is_running, start_ok, load_ok) ==
    IF is_running
    THEN [running |-> TRUE, jobs |-> jobs, reload |-> "none", log |-> "none",
          replaced |-> FALSE, raised |-> FALSE]
    ELSE IF ~start_ok
    THEN [running |-> FALSE, jobs |-> jobs, reload |-> "failed", log |-> "error",
          replaced |-> FALSE, raised |-> FALSE]
    ELSE LET loaded == load_schedules(rows, jobs, load_ok) IN
         [running |-> TRUE, jobs |-> loaded.jobs,
          reload |-> IF loaded.raised THEN "failed" ELSE "ok",
          log |-> IF loaded.raised THEN "error" ELSE "info",
          replaced |-> loaded.replaced, raised |-> FALSE]

\* a write that adds a row whether or not the search has one
WriteScheduleAlwaysAdd(rows, search_id, schedule_data, db_ok) ==
    IF ~db_ok THEN [rows |-> rows, schedule_id |-> NoneInt]
    ELSE add_schedule(rows, search_id, JobIdOf(search_id), func_name, schedule_data)

\* the row update_search_schedule writes: db_ok is whether the database
\* wrote it and gave its id
WriteSchedule(rows, search_id, schedule_data, db_ok) ==
    LET schedule == get_schedule_by_search_id(rows, search_id) IN
    IF ~db_ok THEN [rows |-> rows, schedule_id |-> NoneInt]
    ELSE IF schedule # NoRow THEN update_schedule(rows, search_id, schedule_data)
    ELSE add_schedule(rows, search_id, JobIdOf(search_id), func_name, schedule_data)

\* update_search_schedule that does not reload the schedules
UpdateScheduleNoReload(rows, jobs, search_id, schedule_data, db_ok, load_ok) ==
    LET written == WriteSchedule(rows, search_id, schedule_data, db_ok) IN
    IF written.schedule_id = NoneInt
    THEN [rows |-> rows, jobs |-> jobs, reload |-> "none", replaced |-> FALSE,
          response |-> HttpResponse(500, FALSE, "Failed to update schedule")]
    ELSE [rows |-> written.rows, jobs |-> jobs, reload |-> "none", replaced |-> FALSE,
          response |-> HttpResponse(200, TRUE, NoneStr)]

\* update_search_schedule that reloads the schedules whatever the database did
UpdateScheduleReloadAnyway(rows, jobs, search_id, schedule_data, db_ok, load_ok) ==
    LET written == WriteSchedule(rows, search_id, schedule_data, db_ok)
        loaded == load_schedules(written.rows, jobs, load_ok)
    IN IF written.schedule_id = NoneInt
       THEN [rows |-> rows, jobs |-> loaded.jobs, reload |-> "none", replaced |-> FALSE,
             response |-> HttpResponse(500, FALSE, "Failed to update schedule")]
       ELSE IF loaded.raised
       THEN [rows |-> written.rows, jobs |-> loaded.jobs, reload |-> "failed",
             replaced |-> FALSE, response |-> HttpResponse(500, FALSE, "load_schedules failed")]
       ELSE [rows |-> written.rows, jobs |-> loaded.jobs, reload |-> "ok",
             replaced |-> loaded.replaced, response |-> HttpResponse(200, TRUE, NoneStr)]

\* update_search_schedule(search_id, request): PUT /schedule/search/{search_id}
update_search_schedule(rows, jobs, search_id, schedule_data, db_ok, load_ok) ==
    LET written == WriteSchedule(rows, search_id, schedule_data, db_ok)
        loaded == load_schedules(written.rows, jobs, load_ok)
    IN IF written.schedule_id = NoneInt
       THEN [rows |-> rows, jobs |-> jobs, reload |-> "none", replaced |-> FALSE,
             response |-> HttpResponse(500, FALSE, "Failed to update schedule")]
       ELSE IF loaded.raised
       THEN [rows |-> written.rows, jobs |-> loaded.jobs, reload |-> "failed",
             replaced |-> FALSE, response |-> HttpResponse(500, FALSE, "load_schedules failed")]
       ELSE [rows |-> written.rows, jobs |-> loaded.jobs, reload |-> "ok",
             replaced |-> loaded.replaced, response |-> HttpResponse(200, TRUE, NoneStr)]

\* delete_search_schedule that does not reload the schedules
DeleteScheduleNoReload(rows, jobs, search_id, db_ok, load_ok) ==
    LET gone == delete_schedule_by_search_id(rows, search_id) IN
    IF ~db_ok
    THEN [rows |-> rows, jobs |-> jobs, reload |-> "none", replaced |-> FALSE,
          response |-> HttpResponse(500, FALSE, "delete failed")]
    ELSE [rows |-> gone.rows, jobs |-> jobs, reload |-> "none", replaced |-> FALSE,
          response |-> HttpResponse(200, gone.deleted, NoneStr)]

\* delete_search_schedule(search_id): DELETE /schedule/search/{search_id}
delete_search_schedule(rows, jobs, search_id, db_ok, load_ok) ==
    LET gone == delete_schedule_by_search_id(rows, search_id)
        loaded == load_schedules(gone.rows, jobs, load_ok)
    IN IF ~db_ok
       THEN [rows |-> rows, jobs |-> jobs, reload |-> "none", replaced |-> FALSE,
             response |-> HttpResponse(500, FALSE, "delete failed")]
       ELSE IF ~gone.deleted
       THEN [rows |-> rows, jobs |-> jobs, reload |-> "none", replaced |-> FALSE,
             response |-> HttpResponse(200, FALSE, NoneStr)]
       ELSE IF loaded.raised
       THEN [rows |-> gone.rows, jobs |-> loaded.jobs, reload |-> "failed",
             replaced |-> FALSE, response |-> HttpResponse(500, FALSE, "load_schedules failed")]
       ELSE [rows |-> gone.rows, jobs |-> loaded.jobs, reload |-> "ok",
             replaced |-> loaded.replaced, response |-> HttpResponse(200, TRUE, NoneStr)]

\* AiArr.trigger_scheduled_job(job_id): a job that is not live is reported
\* not found; a live one is run now, which works, fails or raises
TriggerOutcomes == {"ok", "failed", "raised"}
trigger_scheduled_job(jobs, job_id, outcome) ==
    IF ~HasJob(jobs, job_id)
    THEN [success |-> FALSE, raised |-> FALSE,
          message |-> "Job Not Found"]
    ELSE IF outcome = "ok"
    THEN [success |-> TRUE, raised |-> FALSE,
          message |-> "Job triggered"]
    ELSE IF outcome = "failed"
    THEN [success |-> FALSE, raised |-> FALSE,
          message |-> "Error triggering job"]
    ELSE [success |-> FALSE, raised |-> TRUE, message |-> NoneStr]

\* trigger_job_endpoint that answers every failure with 500
TriggerEndpointGeneric(jobs, job_id, outcome) ==
    LET result == trigger_scheduled_job(jobs, job_id, outcome) IN
    IF result.raised
    THEN HttpResponse(500, FALSE, "An unexpected error occurred while triggering job")
    ELSE IF ~result.success THEN HttpResponse(500, FALSE, result.message)
    ELSE HttpResponse(200, result.success, result.message)

\* trigger_job_endpoint(job_id): GET /schedule/job/{job_id}/trigger
trigger_job_endpoint(jobs, job_id, outcome) ==
    LET result == trigger_scheduled_job(jobs, job_id, outcome) IN
    IF result.raised
    THEN HttpResponse(500, FALSE, "An unexpected error occurred while triggering job")
    ELSE IF ~result.success
    THEN IF Contains(Lower(result.message), "not found")
         THEN HttpResponse(404, FALSE, result.message)
         ELSE HttpResponse(500, FALSE, result.message)
    ELSE HttpResponse(200, result.success, result.message)

\* ------------------------------------------------------------- API handlers
\* The media rows a request can name, and what an endpoint answers: the HTTP
\* status, the detail of an HTTPException, and the body it returned
MediaIds == {1, 2}
SearchIdArgs == SearchIds \cup {9}
MediaIdArgs == MediaIds \cup {9}
ApiResponse(status, detail, data) == [status |-> status, detail |-> detail, data |-> data]
NoApiResponse == ApiResponse(NoneInt, NoneStr, NoneStr)

\* str(e) of an HTTPException
StrHTTPException(status, detail) == ToString(status) \o ": " \o detail

\* except Exception as e: raise HTTPException(status_code=500, detail=str(e))
Caught(message) == ApiResponse(500, message, NoneStr)

\* _ai_arr_instance is None, and get_ai_arr(): the instance in
\* _ai_arr_instance, constructed first when there is none; made counts the
\* AiArr objects constructed
NoInstance == 0
get_ai_arr(inst, made) ==
    IF inst = NoInstance THEN [instance |-> made + 1, made |-> made + 1]
    ELSE [instance |-> inst, made |-> made]

\* Depends() without a callable on a parameter annotated AiArr: the class is
\* the dependency, and AiArr() is constructed for the request
DependsOnClass(made) == [instance |-> made + 1, made |-> made + 1]

\* get_search(search_id): GET /search/{search_id}
get_search(rows, search_id, db_ok) ==
    IF ~db_ok THEN Caught("database error")
    ELSE IF search_id \notin rows THEN Caught(StrHTTPException(404, "Search not found"))
    ELSE ApiResponse(200, NoneStr, "search")

\* save_search(request): POST /search; the database gives the row an id
\* that is free, or none
save_search(rows, db_ok) ==
    IF ~db_ok \/ rows = SearchIds
    THEN [rows |-> rows, response |-> Caught(StrHTTPException(500, "Failed to save search"))]
    ELSE [rows |-> rows \cup {CHOOSE id \in SearchIds \ rows : \A other \in SearchIds \ rows : id <= other},
          response |-> ApiResponse(200, NoneStr, "search")]

\* update_search(search_id, request): PUT /search/{search_id}
update_search(rows, search_id, db_ok) ==
    IF ~db_ok THEN Caught("database error")
    ELSE IF search_id \notin rows THEN Caught(StrHTTPException(404, "Search not found"))
    ELSE ApiResponse(200, NoneStr, "success")

\* delete_search(search_id): DELETE /search/{search_id}
delete_search(rows, search_id, db_ok) ==
    IF ~db_ok THEN [rows |-> rows, response |-> Caught("database error")]
    ELSE IF search_id \notin rows
    THEN [rows |-> rows, response |-> Caught(StrHTTPException(404, "Search not found"))]
    ELSE [rows |-> rows \ {search_id}, response |-> ApiResponse(200, NoneStr, "success")]

\* delete_media_item(media_id): DELETE /media/{media_id}
delete_media_item(rows, media_id, db_ok) ==
    IF ~db_ok THEN [rows |-> rows, response |-> Caught("database error")]
    ELSE IF media_id \notin rows
    THEN [rows |-> rows,
          response |-> Caught(StrHTTPException(404,
                           "Media item with ID " \o ToString(media_id) \o " not found."))]
    ELSE [rows |-> rows \ {media_id}, response |-> ApiResponse(200, NoneStr, "success")]

\* gemini_similar_media_by_search(search_id):
\* GET /gemini/similar_media/search/{search_id}; cycle_ok is whether
\* get_similar_media returned
gemini_similar_media_by_search(rows, search_id, cycle_ok) ==
    IF search_id \notin rows THEN Caught(StrHTTPException(404, "Search not found"))
    ELSE IF ~cycle_ok THEN Caught("cycle failed")
    ELSE ApiResponse(200, NoneStr, "recommendations")

\* what ai_arr.request_media hands the endpoint: the APIResponse of the
\* provider; a failure without a transport status has status_code None
RequestResults ==
    {APIResponse(TRUE, [kind |-> "dict", results |-> <<[id |-> 603]>>], NoneStr, NoneStr, 201),
     APIResponse(FALSE, NoData, "HTTP error", "Not Found", 404),
     APIResponse(FALSE, NoData, "HTTP error", "Bad Request", 400),
     APIResponse(FALSE, NoData, "Request failed", "Connection refused", NoneInt)}

\* request_media(tmdb_id, request_body): POST /request/{tmdb_id}; a failed
\* APIResponse raises HTTPException(status_code, detail=details) inside the
\* try, which the except Exception below it catches
request_media(api_response, raised) ==
    IF raised THEN Caught("request_media failed")
    ELSE IF api_response.success THEN ApiResponse(200, NoneStr, api_response.data)
    ELSE LET status_code == IF api_response.status_code # NoneInt
                            THEN api_response.status_code ELSE 500
         IN Caught(StrHTTPException(status_code, api_response.error))

\* ------------------------------------------------------------- recommendation cycle
\* The titles the recommendation collaborator can name and how the request
\* provider answers for one of them: the lookup fails, or it succeeds and the
\* title is not requested, or the request for it fails or succeeds
CandidateTitles == {"Dune", "Heat"}
TitleOutcomes == {"lookup_failed", "not_requested", "request_failed", "requested"}
TitleOutcome(title, status) == [title |-> title, status |-> status]

\* the candidate lists of up to n titles
RECURSIVE CandidateLists(_)
CandidateLists(n) ==
    IF n = 0 THEN {<<>>}
    ELSE CandidateLists(n - 1)
         \cup {Append(list, title) : list \in {l \in CandidateLists(n - 1) : Len(l) = n - 1},
                                      title \in CandidateTitles}

\* a cycle that gives up at the first title that fails
AfterTitleStopAtFailure(candidates, outcomes) ==
    IF outcomes[Len(outcomes)].status \in {"lookup_failed", "request_failed"} THEN "error"
    ELSE IF Len(outcomes) = Len(candidates) THEN "done"
    ELSE "titles"

\* where the cycle stands once the outcome of a title is recorded: it goes
\* on to the next title whatever the outcome was
AfterTitle(candidates, outcomes) ==
    IF Len(outcomes) = Len(candidates) THEN "done" ELSE "titles"

\* ------------------------------------------------------------- reference
\* What spec.md 4.1 says a consolidation of the events read so far holds for
\* each name: the instants played, the first reported play count and favourite
\* flag, and the kind of the first event. Kept beside a run to state the
\* claims against.
RecognizedKinds(service, source) ==
    IF service = "jellyfin" THEN {"Episode", "Series", "Movie"}
    ELSE IF source = "history" THEN {"Episode", "Movie"}
    ELSE IF source \in {"library_favorites", "library_all"} THEN {"Series", "Movie"}
    ELSE {}

Dropped(ev, service, source) ==
    ev.kind \notin RecognizedKinds(service, source) \/ ~Truthy(ev.name)

\* history rows of Plex report neither a play count nor a rating
CarriedPlayCount(ev, service, source) ==
    IF service = "plex" /\ source = "history" THEN NoneInt ELSE ev.pc
CarriedFavorite(ev, service, source) ==
    IF service = "plex" /\ source = "history" THEN NoneStr ELSE ev.fav

DatesOf(ev) == IF ev.date = NoneInt THEN {} ELSE {ev.date}

RefMerge(e, ev, service, source) ==
    [e EXCEPT
        !.dates = e.dates \cup DatesOf(ev),
        !.undated = e.undated \/ ev.date = NoneInt,
        !.play_count = IF e.play_count = NoneInt
                       THEN CarriedPlayCount(ev, service, source) ELSE e.play_count,
        !.is_favorite = IF e.is_favorite = NoneStr
                        THEN CarriedFavorite(ev, service, source) ELSE e.is_favorite,
        !.episodes = e.episodes \/ ev.kind = "Episode"]

RefStep(r, ev, service, source) ==
    IF Dropped(ev, service, source) THEN r
    ELSE IF HasName(r, ev.name)
         THEN [r EXCEPT ![IndexOf(r, ev.name)] =
                   RefMerge(r[IndexOf(r, ev.name)], ev, service, source)]
         ELSE Append(r, [name |-> ev.name, first_kind |-> ev.kind, first_date |-> ev.date,
                         dates |-> DatesOf(ev), undated |-> ev.date = NoneInt,
                         play_count |-> CarriedPlayCount(ev, service, source),
                         is_favorite |-> CarriedFavorite(ev, service, source),
                         episodes |-> ev.kind = "Episode"])

Latest(dates) == CHOOSE t \in dates : \A u \in dates : u <= t

\* ------------------------------------------------------------- state
VARIABLES
    pc,                 \* "idle", "loop" (inside for item in items), "returned", "raised"
    service,            \* which get_items_filtered runs: "jellyfin", "plex", or "both" side by side
    source_type,        \* Plex.get_items_filtered's source_type
    attribute_filter,   \* attribute_filter of the call
    empty,              \* no item read yet (not items)
    jfMap, jfRaised,    \* Jellyfin.get_items_filtered: processed_media_map, TypeError raised
    pxMap,              \* Plex.get_items_filtered: processed_media_map
    jfCleanMap, jfCleanRaised, pxCleanMap,  \* the same calls on the input without its dropped events
    ref,                \* the reference consolidation of the events read
    dropped,            \* some event read was of unrecognized kind or nameless
    apart,              \* side by side: some event read was dropped by one call only
    jfResult, pxResult, jfCleanResult, pxCleanResult,
    \* JellyseerrProvider
    prOp,               \* the operation called last: "none", "get_users", "get_quality_profiles",
                        \* "lookup_media", "add_media"
    prArgs,             \* its arguments
    prRequests,         \* the network requests it issued, in order
    prResponses,        \* what the server answered to them, in order
    prResult,           \* the APIResponse it returned
    prRaised,           \* it raised instead of returning
    \* source adapters
    adCall,             \* the adapter method called last, with its configuration and arguments
    adAnswer,           \* how the media server answered
    adItems,            \* get_all_items_filtered: what its get_all_items returned
    adResult,           \* what the method returned
    \* schedules
    appPhase,           \* "down", "serving", or "crashed" when startup_event raised
    schedules,          \* the schedule table of the database
    jobs,               \* the jobs of the live scheduler
    running,            \* scheduler.running
    inFlight,           \* per saved search, the pipeline cycles running for it
    lastRequest,        \* the last request to a schedule, trigger or search endpoint
    lastResponse,       \* and what it answered
    lastReload,         \* how the last start-and-load or reload ended: "none", "ok", "failed"
    startupLog,         \* what startup_event logged last: "none", "info", "error"
    replaced,           \* the last reload met a job_id that was live already
    \* API handlers
    apiUp,              \* the application is between its startup and its shutdown
    instance,           \* _ai_arr_instance: NoInstance, or the AiArr object it names
    made,               \* how many AiArr objects were constructed since the startup
    used,               \* the AiArr object the last handler operated on
    searches,           \* the ids of the saved searches in the database
    media,              \* the ids of the media rows in the database
    apiRequest,         \* the last request to a search, media or request endpoint
    apiResponse,        \* and what it answered
    \* recommendation cycle
    runPhase,           \* "idle", "gather", "recommend", "titles", "done", "error"
    runCandidates,      \* the candidate titles the recommendation call returned
    runOutcomes,        \* the outcome recorded for each title processed, in order
    runError            \* the terminal error of the cycle, or NoneStr

consVars ==
    <<pc, service, source_type, attribute_filter, empty, jfMap, jfRaised, pxMap,
      jfCleanMap, jfCleanRaised, pxCleanMap, ref, dropped, apart, jfResult, pxResult,
      jfCleanResult, pxCleanResult>>

provVars == <<prOp, prArgs, prRequests, prResponses, prResult, prRaised>>

adVars == <<adCall, adAnswer, adItems, adResult>>

schedVars ==
    <<appPhase, schedules, jobs, running, inFlight, lastRequest, lastResponse, lastReload,
      startupLog, replaced>>

apiVars == <<apiUp, instance, made, used, searches, media, apiRequest, apiResponse>>

runVars == <<runPhase, runCandidates, runOutcomes, runError>>

vars == <<consVars, provVars, adVars, schedVars, apiVars, runVars>>

RunsJellyfin == service \in {"jellyfin", "both"}
RunsPlex == service \in {"plex", "both"}

InitConsolidate ==
    /\ pc = "idle"
    /\ service = "jellyfin"
    /\ source_type = "library"
    /\ attribute_filter = NoneStr
    /\ empty = TRUE
    /\ jfMap = <<>> /\ jfRaised = FALSE
    /\ pxMap = <<>>
    /\ jfCleanMap = <<>> /\ jfCleanRaised = FALSE /\ pxCleanMap = <<>>
    /\ ref = <<>>
    /\ dropped = FALSE
    /\ apart = FALSE
    /\ jfResult = <<>> /\ pxResult = <<>> /\ jfCleanResult = <<>> /\ pxCleanResult = <<>>

\* get_items_filtered is called: on Jellyfin, on Plex, or on both with
\* corresponding items
Call(svc, source) ==
    /\ pc = "idle"
    /\ pc' = "loop"
    /\ service' = svc
    /\ source_type' = source
    /\ UNCHANGED <<attribute_filter, empty, jfMap, jfRaised, pxMap, jfCleanMap, jfCleanRaised, pxCleanMap,
                   ref, dropped, apart, jfResult, pxResult, jfCleanResult, pxCleanResult,
                   provVars, adVars, schedVars, apiVars, runVars>>

JellyfinStep(ev) ==
    LET jf == JellyfinLoopBody(jfMap, JellyfinItem(ev))
        jfc == JellyfinLoopBody(jfCleanMap, JellyfinItem(ev))
        drop == Dropped(ev, "jellyfin", source_type)
    IN /\ jfMap' = IF jfRaised THEN jfMap ELSE jf.map
       /\ jfRaised' = (jfRaised \/ jf.raised)
       /\ jfCleanMap' = IF jfCleanRaised \/ drop THEN jfCleanMap ELSE jfc.map
       /\ jfCleanRaised' = (jfCleanRaised \/ (~drop /\ jfc.raised))

PlexStep(ev) ==
    /\ pxMap' = PlexLoopBody(pxMap, PlexItem(ev, source_type), source_type)
    /\ pxCleanMap' = IF Dropped(ev, "plex", source_type) THEN pxCleanMap
                     ELSE PlexLoopBody(pxCleanMap, PlexItem(ev, source_type), source_type)

\* for item in items: the next item of the input is read. A TypeError ends a
\* call that runs alone; side by side, the other call goes on.
LoopStep(ev) ==
    /\ pc = "loop"
    /\ empty' = FALSE
    /\ IF RunsJellyfin THEN JellyfinStep(ev)
       ELSE UNCHANGED <<jfMap, jfRaised, jfCleanMap, jfCleanRaised, apiVars, runVars>>
    /\ IF RunsPlex THEN PlexStep(ev) ELSE UNCHANGED <<pxMap, pxCleanMap, apiVars, runVars>>
    /\ ref' = IF service = "both" THEN ref ELSE RefStep(ref, ev, service, source_type)
    /\ dropped' = (dropped \/ (service # "both" /\ Dropped(ev, service, source_type)))
    /\ apart' = (apart \/ (service = "both" /\ Dropped(ev, "jellyfin", source_type)
                                                  # Dropped(ev, "plex", source_type)))
    /\ pc' = IF service = "jellyfin" /\ jfRaised' THEN "raised" ELSE "loop"
    /\ UNCHANGED <<service, source_type, attribute_filter, jfResult, pxResult,
                   jfCleanResult, pxCleanResult, provVars, adVars, schedVars, apiVars, runVars>>

\* the end of the input: if not items: return [], else the map, projected as
\* the call's attribute_filter says
Return(filter) ==
    /\ pc = "loop"
    /\ pc' = "returned"
    /\ attribute_filter' = filter
    /\ jfResult' = IF empty \/ jfRaised \/ ~RunsJellyfin THEN <<>>
                   ELSE JellyfinProject(jfMap, filter)
    /\ jfCleanResult' = IF empty \/ jfCleanRaised \/ ~RunsJellyfin THEN <<>>
                        ELSE JellyfinProject(jfCleanMap, filter)
    /\ pxResult' = IF empty \/ ~RunsPlex THEN <<>> ELSE PlexProject(pxMap, filter)
    /\ pxCleanResult' = IF empty \/ ~RunsPlex THEN <<>>
                        ELSE PlexProject(pxCleanMap, filter)
    /\ UNCHANGED <<service, source_type, empty, jfMap, jfRaised, pxMap,
                   jfCleanMap, jfCleanRaised, pxCleanMap, ref, dropped, apart, provVars,
                   adVars, schedVars, apiVars, runVars>>

\* ------------------------------------------------------------- provider actions
NoResult == APIResponse(FALSE, NoData, NoneStr, NoneStr, NoneInt)
Args(title, tmdb_id, media_type) ==
    [title |-> title, tmdb_id |-> tmdb_id, media_type |-> media_type]

InitProvider ==
    /\ prOp = "none"
    /\ prArgs = Args(NoneStr, NoneInt, NoneStr)
    /\ prRequests = <<>>
    /\ prResponses = <<>>
    /\ prResult = NoResult
    /\ prRaised = FALSE

LookupMedia(title, tmdb_id, media_type, response) ==
    LET r == lookup_media(title, tmdb_id, media_type, response) IN
    /\ prOp' = "lookup_media"
    /\ prArgs' = Args(title, tmdb_id, media_type)
    /\ prRequests' = r.requests
    /\ prResponses' = IF Len(r.requests) = 1 THEN <<response>> ELSE <<>>
    /\ prResult' = r.result
    /\ prRaised' = FALSE
    /\ UNCHANGED <<consVars, adVars, schedVars, apiVars, runVars>>

AddMedia(media_type, title, lookup_response, post_response) ==
    LET r == add_media(media_type, title, lookup_response, post_response) IN
    /\ prOp' = "add_media"
    /\ prArgs' = Args(title, NoneInt, media_type)
    /\ prRequests' = r.requests
    /\ prResponses' = SubSeq(<<lookup_response, post_response>>, 1, Len(r.requests))
    /\ prResult' = IF r.raised THEN NoResult ELSE r.result
    /\ prRaised' = r.raised
    /\ UNCHANGED <<consVars, adVars, schedVars, apiVars, runVars>>

GetUsers(displayName, response) ==
    LET r == get_users(displayName, response) IN
    /\ prOp' = "get_users"
    /\ prArgs' = [displayName |-> displayName]
    /\ prRequests' = r.requests
    /\ prResponses' = <<response>>
    /\ prResult' = r.result
    /\ prRaised' = FALSE
    /\ UNCHANGED <<consVars, adVars, schedVars, apiVars, runVars>>

GetQualityProfiles ==
    /\ prOp' = "get_quality_profiles"
    /\ prArgs' = Args(NoneStr, NoneInt, NoneStr)
    /\ prRequests' = get_quality_profiles.requests
    /\ prResponses' = <<>>
    /\ prResult' = get_quality_profiles.result
    /\ prRaised' = FALSE
    /\ UNCHANGED <<consVars, adVars, schedVars, apiVars, runVars>>

NextProvider ==
    \/ \E displayName \in DisplayNameArgs, response \in UserResponses :
          GetUsers(displayName, response)
    \/ GetQualityProfiles
    \/ \E title \in TitleArgs, tmdb_id \in TmdbIdArgs, media_type \in MediaTypeArgs,
          response \in Responses : LookupMedia(title, tmdb_id, media_type, response)
    \/ \E media_type \in MediaTypeArgs, title \in TitleArgs, lookup_response \in Responses,
          post_response \in Responses :
              AddMedia(media_type, title, lookup_response, post_response)

\* ------------------------------------------------------------- adapter actions
NoCall == [service |-> "none", method |-> "none", url |-> NoneStr, key |-> NoneStr,
           connected |-> FALSE, user_id |-> NoneStr, limit |-> NoneInt, filter |-> NoneStr]

InitAdapter ==
    /\ adCall = NoCall
    /\ adAnswer = Answer("none", <<>>)
    /\ adItems = Null
    /\ adResult = Null

JellyfinCall(method, url, key, user_id, filter) ==
    [NoCall EXCEPT !.service = "jellyfin", !.method = method, !.url = url, !.key = key,
                   !.user_id = user_id, !.filter = filter]

PlexCall(method, connected, user_id, limit, filter) ==
    [NoCall EXCEPT !.service = "plex", !.method = method, !.connected = connected,
                   !.user_id = user_id, !.limit = limit, !.filter = filter]

Adapter(call, answer, items, result) ==
    /\ adCall' = call
    /\ adAnswer' = answer
    /\ adItems' = items
    /\ adResult' = result
    /\ UNCHANGED <<consVars, provVars, schedVars, apiVars, runVars>>

JellyfinGetRecentlyWatched(url, key, user_id, answer) ==
    Adapter(JellyfinCall("get_recently_watched", url, key, user_id, NoneStr), answer, Null,
            jellyfin_get_recently_watched(url, key, user_id, answer))

JellyfinGetFavorites(url, key, user_id, answer) ==
    Adapter(JellyfinCall("get_favorites", url, key, user_id, NoneStr), answer, Null,
            jellyfin_get_favorites(url, key, user_id, answer))

JellyfinGetAllItems(url, key, answer) ==
    Adapter(JellyfinCall("get_all_items", url, key, NoneStr, NoneStr), answer, Null,
            jellyfin_get_all_items(url, key, answer))

JellyfinGetAllItemsFiltered(url, key, answer, filter) ==
    Adapter(JellyfinCall("get_all_items_filtered", url, key, NoneStr, filter), answer,
            jellyfin_get_all_items(url, key, answer),
            jellyfin_get_all_items_filtered(url, key, answer, filter))

PlexGetRecentlyWatched(connected, user_id, answer) ==
    Adapter(PlexCall("get_recently_watched", connected, user_id, NoneInt, NoneStr), answer,
            Null, plex_get_recently_watched(connected, user_id, answer))

PlexGetFavorites(connected, user_id, limit, answer) ==
    Adapter(PlexCall("get_favorites", connected, user_id, limit, NoneStr), answer, Null,
            plex_get_favorites(connected, limit, answer))

PlexGetAllItems(connected, answer) ==
    Adapter(PlexCall("get_all_items", connected, NoneStr, NoneInt, NoneStr), answer, Null,
            plex_get_all_items(connected, answer))

PlexGetAllItemsFiltered(connected, answer, filter) ==
    Adapter(PlexCall("get_all_items_filtered", connected, NoneStr, NoneInt, filter), answer,
            plex_get_all_items(connected, answer),
            plex_get_all_items_filtered(connected, answer, filter))

NextAdapter ==
    \/ \E url \in UrlArgs, key \in KeyArgs, user_id \in UserIdArgs, answer \in JellyfinAnswers :
          \/ JellyfinGetRecentlyWatched(url, key, user_id, answer)
          \/ JellyfinGetFavorites(url, key, user_id, answer)
    \/ \E url \in UrlArgs, key \in KeyArgs, answer \in JellyfinAnswers :
          \/ JellyfinGetAllItems(url, key, answer)
          \/ \E filter \in AttributeFilters :
                JellyfinGetAllItemsFiltered(url, key, answer, filter)
    \/ \E connected \in BOOLEAN, answer \in PlexAnswers :
          \/ \E user_id \in UserIdArgs : PlexGetRecentlyWatched(connected, user_id, answer)
          \/ \E user_id \in UserIdArgs, limit \in LimitArgs :
                PlexGetFavorites(connected, user_id, limit, answer)
          \/ PlexGetAllItems(connected, answer)
          \/ \E filter \in AttributeFilters :
                PlexGetAllItemsFiltered(connected, answer, filter)

\* ------------------------------------------------------------- schedule actions
MaxInFlight == 2
RunSearchArgs == SearchIds \cup {9}

NoRequest == [op |-> "none", search_id |-> NoneInt, job_id |-> NoneStr, enabled |-> FALSE,
              before |-> "absent"]
\* how the schedule of a search stands in the table
Standing(rows, search_id) ==
    IF get_schedule_by_search_id(rows, search_id) = NoRow THEN "absent"
    ELSE IF get_schedule_by_search_id(rows, search_id).enabled THEN "enabled"
    ELSE "disabled"

InitSchedules ==
    /\ appPhase = "down"
    /\ schedules = <<>>
    /\ jobs = <<>>
    /\ running = FALSE
    /\ inFlight = [search_id \in SearchIds |-> 0]
    /\ lastRequest = NoRequest
    /\ lastResponse = NoResponse
    /\ lastReload = "none"
    /\ startupLog = "none"
    /\ replaced = FALSE

\* the application starts: startup_event runs, and the application serves
\* unless it raised
Startup(start_ok, load_ok) ==
    LET started == startup_event(schedules, jobs, running, start_ok, load_ok) IN
    /\ appPhase = "down"
    /\ appPhase' = IF started.raised THEN "crashed" ELSE "serving"
    /\ running' = started.running
    /\ jobs' = started.jobs
    /\ lastReload' = started.reload
    /\ startupLog' = started.log
    /\ replaced' = started.replaced
    /\ UNCHANGED <<schedules, inFlight, lastRequest, lastResponse, consVars, provVars, adVars, apiVars, runVars>>

\* shutdown_event(): the scheduler is shut down and the AiArr instance
\* dropped; the schedule table stays in the database
Shutdown ==
    /\ appPhase = "serving"
    /\ appPhase' = "down"
    /\ jobs' = <<>>
    /\ running' = FALSE
    /\ inFlight' = [search_id \in SearchIds |-> 0]
    /\ lastRequest' = NoRequest
    /\ lastResponse' = NoResponse
    /\ lastReload' = "none"
    /\ startupLog' = "none"
    /\ replaced' = FALSE
    /\ UNCHANGED <<schedules, consVars, provVars, adVars, apiVars, runVars>>

UpdateSchedule(search_id, hour, enabled, db_ok, load_ok) ==
    LET done == update_search_schedule(schedules, jobs, search_id,
                                       ScheduleData(search_id, hour, enabled),
                                       db_ok, load_ok) IN
    /\ appPhase = "serving"
    /\ schedules' = done.rows
    /\ jobs' = done.jobs
    /\ lastReload' = IF done.reload = "none" THEN lastReload ELSE done.reload
    /\ replaced' = done.replaced
    /\ lastRequest' = [op |-> "update", search_id |-> search_id,
                       job_id |-> JobIdOf(search_id), enabled |-> enabled,
                       before |-> Standing(schedules, search_id)]
    /\ lastResponse' = done.response
    /\ UNCHANGED <<appPhase, running, inFlight, startupLog, consVars, provVars, adVars, apiVars, runVars>>

DeleteSchedule(search_id, db_ok, load_ok) ==
    LET done == delete_search_schedule(schedules, jobs, search_id, db_ok, load_ok) IN
    /\ appPhase = "serving"
    /\ schedules' = done.rows
    /\ jobs' = done.jobs
    /\ lastReload' = IF done.reload = "none" THEN lastReload ELSE done.reload
    /\ replaced' = done.replaced
    /\ lastRequest' = [op |-> "delete", search_id |-> search_id,
                       job_id |-> JobIdOf(search_id), enabled |-> FALSE,
                       before |-> Standing(schedules, search_id)]
    /\ lastResponse' = done.response
    /\ UNCHANGED <<appPhase, running, inFlight, startupLog, consVars, provVars, adVars, apiVars, runVars>>

\* the scheduler starts a cycle of a job unless one is running for it
StartUnlessRunning(cycles, search_id) ==
    IF cycles[search_id] = 0 THEN [cycles EXCEPT ![search_id] = 1] ELSE cycles

SearchOfJob(job_id) == jobs[CHOOSE i \in 1..Len(jobs) : jobs[i].id = job_id].search_id

TriggerJob(job_id, outcome) ==
    LET response == trigger_job_endpoint(jobs, job_id, outcome) IN
    /\ appPhase = "serving"
    /\ lastRequest' = [NoRequest EXCEPT !.op = "trigger", !.job_id = job_id]
    /\ lastResponse' = response
    /\ inFlight' = IF response.status = 200
                   THEN StartUnlessRunning(inFlight, SearchOfJob(job_id)) ELSE inFlight
    /\ UNCHANGED <<appPhase, schedules, jobs, running, lastReload, startupLog, replaced,
                   consVars, provVars, adVars, apiVars, runVars>>

\* the live scheduler fires a job at its cron time
Fire(job_id) ==
    /\ appPhase = "serving" /\ running
    /\ HasJob(jobs, job_id)
    /\ inFlight' = StartUnlessRunning(inFlight, SearchOfJob(job_id))
    /\ UNCHANGED <<appPhase, schedules, jobs, running, lastRequest, lastResponse, lastReload,
                   startupLog, replaced, consVars, provVars, adVars, apiVars, runVars>>

\* gemini_similar_media_by_search(search_id) up to its await: a search that
\* is not saved ends the request, a saved one has its cycle started
RunSavedSearch(search_id) ==
    /\ appPhase = "serving"
    /\ lastRequest' = [NoRequest EXCEPT !.op = "run", !.search_id = search_id]
    /\ IF search_id \in SearchIds
       THEN /\ inFlight[search_id] < MaxInFlight
            /\ inFlight' = [inFlight EXCEPT ![search_id] = @ + 1]
            /\ lastResponse' = NoResponse
       ELSE /\ inFlight' = inFlight
            /\ lastResponse' = HttpResponse(500, FALSE, "404: Search not found")
    /\ UNCHANGED <<appPhase, schedules, jobs, running, lastReload, startupLog, replaced,
                   consVars, provVars, adVars, apiVars, runVars>>

\* a cycle runs to its end
CycleDone(search_id) ==
    /\ appPhase = "serving"
    /\ inFlight[search_id] > 0
    /\ inFlight' = [inFlight EXCEPT ![search_id] = @ - 1]
    /\ UNCHANGED <<appPhase, schedules, jobs, running, lastRequest, lastResponse, lastReload,
                   startupLog, replaced, consVars, provVars, adVars, apiVars, runVars>>

\* the schedules and their registry: starts, shutdowns and schedule requests
NextSchedules ==
    \/ \E start_ok \in BOOLEAN, load_ok \in BOOLEAN : Startup(start_ok, load_ok)
    \/ Shutdown
    \/ \E search_id \in SearchIds, hour \in Crons, enabled \in BOOLEAN,
          db_ok \in BOOLEAN, load_ok \in BOOLEAN :
              UpdateSchedule(search_id, hour, enabled, db_ok, load_ok)
    \/ \E search_id \in SearchIds, db_ok \in BOOLEAN, load_ok \in BOOLEAN :
          DeleteSchedule(search_id, db_ok, load_ok)

\* the cycles of a serving application whose schedules load: firings,
\* manual triggers and runs of saved searches
NextCycles ==
    \/ Startup(TRUE, TRUE)
    \/ \E search_id \in SearchIds, enabled \in BOOLEAN :
          UpdateSchedule(search_id, "*", enabled, TRUE, TRUE)
    \/ \E job_id \in JobIdArgs, outcome \in TriggerOutcomes : TriggerJob(job_id, outcome)
    \/ \E job_id \in JobIdArgs : Fire(job_id)
    \/ \E search_id \in RunSearchArgs : RunSavedSearch(search_id)
    \/ \E search_id \in SearchIds : CycleDone(search_id)

\* ------------------------------------------------------------- API actions
MaxInstances == 3

NoApiRequest == [op |-> "none", id |-> NoneInt, present |-> FALSE, result |-> NoResult]
ApiRequest(op, id, present) == [NoApiRequest EXCEPT !.op = op, !.id = id, !.present = present]

InitApi ==
    /\ apiUp = FALSE
    /\ instance = NoInstance
    /\ made = 0
    /\ used = NoInstance
    /\ searches = {}
    /\ media = {}
    /\ apiRequest = NoApiRequest
    /\ apiResponse = NoApiResponse

\* startup_event(): ai_arr_instance = get_ai_arr()
ApiStartup ==
    LET got == get_ai_arr(instance, 0) IN
    /\ ~apiUp
    /\ apiUp' = TRUE
    /\ instance' = got.instance
    /\ made' = got.made
    /\ used' = NoInstance
    /\ apiRequest' = NoApiRequest
    /\ apiResponse' = NoApiResponse
    /\ UNCHANGED <<searches, media, consVars, provVars, adVars, schedVars, runVars>>

\* shutdown_event(): _ai_arr_instance = None
ApiShutdown ==
    /\ apiUp
    /\ apiUp' = FALSE
    /\ instance' = NoInstance
    /\ made' = 0
    /\ used' = NoInstance
    /\ apiRequest' = NoApiRequest
    /\ apiResponse' = NoApiResponse
    /\ UNCHANGED <<searches, media, consVars, provVars, adVars, schedVars, runVars>>

\* a handler declared with ai_arr: AiArr = Depends(get_ai_arr) answers a request
Handle(request, response, search_rows, media_rows) ==
    LET got == get_ai_arr(instance, made) IN
    /\ apiUp
    /\ instance' = got.instance
    /\ made' = got.made
    /\ used' = got.instance
    /\ apiRequest' = request
    /\ apiResponse' = response
    /\ searches' = search_rows
    /\ media' = media_rows
    /\ UNCHANGED <<apiUp, consVars, provVars, adVars, schedVars, runVars>>

SaveSearch(db_ok) ==
    LET done == save_search(searches, db_ok) IN
    Handle(ApiRequest("save_search", NoneInt, FALSE), done.response, done.rows, media)

GetSearch(search_id, db_ok) ==
    Handle(ApiRequest("get_search", search_id, search_id \in searches),
           get_search(searches, search_id, db_ok), searches, media)

UpdateSearch(search_id, db_ok) ==
    Handle(ApiRequest("update_search", search_id, search_id \in searches),
           update_search(searches, search_id, db_ok), searches, media)

DeleteSearch(search_id, db_ok) ==
    LET done == delete_search(searches, search_id, db_ok) IN
    Handle(ApiRequest("delete_search", search_id, search_id \in searches),
           done.response, done.rows, media)

\* a cycle records a recommended title as a media row
RecordMedia(media_id) ==
    /\ apiUp
    /\ media_id \notin media
    /\ media' = media \cup {media_id}
    /\ UNCHANGED <<apiUp, instance, made, used, searches, apiRequest, apiResponse,
                   consVars, provVars, adVars, schedVars, runVars>>

DeleteMedia(media_id, db_ok) ==
    LET done == delete_media_item(media, media_id, db_ok) IN
    Handle(ApiRequest("delete_media_item", media_id, media_id \in media),
           done.response, searches, done.rows)

GeminiSimilarMediaBySearch(search_id, cycle_ok) ==
    Handle(ApiRequest("gemini_similar_media_by_search", search_id, search_id \in searches),
           gemini_similar_media_by_search(searches, search_id, cycle_ok), searches, media)

RequestMedia(api_response, raised) ==
    Handle([NoApiRequest EXCEPT !.op = "request_media", !.result = api_response],
           request_media(api_response, raised), searches, media)

\* process(ai_arr: AiArr = Depends()): GET /process is answered on an AiArr
\* constructed for the request
Process ==
    LET got == DependsOnClass(made) IN
    /\ apiUp
    /\ made < MaxInstances
    /\ made' = got.made
    /\ used' = got.instance
    /\ apiRequest' = ApiRequest("process", NoneInt, FALSE)
    /\ apiResponse' = ApiResponse(200, NoneStr, "watch history")
    /\ UNCHANGED <<apiUp, instance, searches, media, consVars, provVars, adVars, schedVars,
                   runVars>>

NextApi ==
    \/ ApiStartup
    \/ ApiShutdown
    \/ \E db_ok \in BOOLEAN : SaveSearch(db_ok)
    \/ \E search_id \in SearchIdArgs, db_ok \in BOOLEAN :
          \/ GetSearch(search_id, db_ok)
          \/ UpdateSearch(search_id, db_ok)
          \/ DeleteSearch(search_id, db_ok)
    \/ \E media_id \in MediaIds : RecordMedia(media_id)
    \/ \E media_id \in MediaIdArgs, db_ok \in BOOLEAN : DeleteMedia(media_id, db_ok)
    \/ \E search_id \in SearchIdArgs, cycle_ok \in BOOLEAN :
          GeminiSimilarMediaBySearch(search_id, cycle_ok)
    \/ \E api_response \in RequestResults, raised \in BOOLEAN :
          RequestMedia(api_response, raised)
    \/ Process

\* ------------------------------------------------------------- cycle actions
MaxTitles == 3

InitRun ==
    /\ runPhase = "idle"
    /\ runCandidates = <<>>
    /\ runOutcomes = <<>>
    /\ runError = NoneStr

\* a cycle is started: by a firing, a trigger or a request
StartCycle ==
    /\ runPhase \in {"idle", "done", "error"}
    /\ runPhase' = "gather"
    /\ runCandidates' = <<>>
    /\ runOutcomes' = <<>>
    /\ runError' = NoneStr
    /\ UNCHANGED <<consVars, provVars, adVars, schedVars, apiVars>>

\* the watch history is gathered from the source adapter: null ends the cycle
GatherHistory(history) ==
    /\ runPhase = "gather"
    /\ IF history.kind = "null"
       THEN runPhase' = "error" /\ runError' = "history"
       ELSE runPhase' = "recommend" /\ runError' = runError
    /\ UNCHANGED <<runCandidates, runOutcomes, consVars, provVars, adVars, schedVars, apiVars>>

\* the recommendation collaborator is invoked: a failure ends the cycle
Recommend(ok, candidates) ==
    /\ runPhase = "recommend"
    /\ IF ~ok
       THEN runPhase' = "error" /\ runError' = "recommendation" /\ runCandidates' = <<>>
       ELSE /\ runPhase' = IF candidates = <<>> THEN "done" ELSE "titles"
            /\ runError' = runError
            /\ runCandidates' = candidates
    /\ UNCHANGED <<runOutcomes, consVars, provVars, adVars, schedVars, apiVars>>

\* the next candidate title is looked up and, if found, requested; what
\* came of it is recorded
ProcessTitle(status) ==
    LET title == runCandidates[Len(runOutcomes) + 1]
        outcomes == Append(runOutcomes, TitleOutcome(title, status))
    IN /\ runPhase = "titles"
       /\ runOutcomes' = outcomes
       /\ runPhase' = AfterTitle(runCandidates, outcomes)
       /\ UNCHANGED <<runCandidates, runError, consVars, provVars, adVars, schedVars, apiVars>>

\* the steps of a cycle that is under way
Advance ==
    \/ \E history \in {Null, ListOf(<<>>)} : GatherHistory(history)
    \/ \E ok \in BOOLEAN, candidates \in CandidateLists(MaxTitles) : Recommend(ok, candidates)
    \/ \E status \in TitleOutcomes : ProcessTitle(status)

NextRun == StartCycle \/ Advance

NextConsolidate ==
    \/ Call("jellyfin", NoneStr)
    \/ \E source \in SourceTypes : Call("plex", source)
    \/ \E ev \in RawEvents : LoopStep(ev)
    \/ \E filter \in AttributeFilters : Return(filter)

NextPair ==
    \/ \E source \in SourceTypes : Call("both", source)
    \/ \E ev \in RawEvents : LoopStep(ev)
    \/ \E filter \in AttributeFilters : Return(filter)

Init == InitConsolidate /\ InitProvider /\ InitAdapter /\ InitSchedules /\ InitApi /\ InitRun
SpecConsolidate == Init /\ [][NextConsolidate]_vars
SpecPair == Init /\ [][NextPair]_vars
SpecProvider == Init /\ [][NextProvider]_vars
SpecAdapter == Init /\ [][NextAdapter]_vars
SpecSchedules == Init /\ [][NextSchedules]_vars
SpecCycles == Init /\ [][NextCycles]_vars
SpecApi == Init /\ [][NextApi]_vars
\* a cycle that is under way runs on: its calls return or time out
SpecRun == Init /\ [][NextRun]_vars /\ WF_vars(Advance)

\* ------------------------------------------------------------- claims: consolidation
\* the call that runs alone, its map and its result
OneMap == IF service = "jellyfin" THEN jfMap ELSE pxMap
OneResult == IF service = "jellyfin" THEN jfResult ELSE pxResult
Alone == service \in {"jellyfin", "plex"} /\ pc # "idle"
EntityOf(map, name) == map[IndexOf(map, name)]
NameSet(seq) == {seq[i].name : i \in 1..Len(seq)}
DateStr(t) == IF t = NoneInt THEN NoneDate ELSE IsoStr(t)
LatestOrNone(dates) == IF dates = {} THEN NoneInt ELSE Latest(dates)
AdvancesDate == service = "jellyfin" \/ (service = "plex" /\ source_type = "history")

\* C1: for every input the call returns a list with exactly one entity per
\* distinct resolvable name of the input, no two entities sharing a name.
C1_OnePerName ==
    Alone =>
        /\ pc # "raised"
        /\ (pc = "returned" /\ ~Truthy(attribute_filter)) =>
              /\ \A i, j \in 1..Len(OneResult) :
                    OneResult[i].name = OneResult[j].name => i = j
              /\ NameSet(OneResult) = NameSet(ref)

\* C2 as claimed: with every source type, once events with two different
\* dates were read for a name its entity holds the later date.
C2_LaterDateEverySource ==
    (Alone /\ pc \in {"loop", "returned"}) =>
        \A i \in 1..Len(ref) :
            Cardinality(ref[i].dates) = 2 =>
                /\ HasName(OneMap, ref[i].name)
                /\ EntityOf(OneMap, ref[i].name).last_played_date
                       = IsoStr(Latest(ref[i].dates))

\* C2 as amended: in Jellyfin and in Plex with source_type history, where
\* every event read for a name carried a date the entity holds the latest of
\* them, whatever the order the events came in.
C2_LaterDateWins ==
    (Alone /\ AdvancesDate) =>
        \A i \in 1..Len(ref) :
            ~ref[i].undated =>
                /\ HasName(OneMap, ref[i].name)
                /\ EntityOf(OneMap, ref[i].name).last_played_date
                       = IsoStr(Latest(ref[i].dates))

\* C2 witness: a Jellyfin call returned after reading, for one name, an event
\* dated 9 and then an event dated 10.
C2_Witness ==
    /\ service = "jellyfin" /\ pc = "returned"
    /\ \E i \in 1..Len(ref) :
          ref[i].dates = {9, 10} /\ ~ref[i].undated /\ ref[i].first_date = 9

\* C3: consolidation never raises, an absent date is replaced by any date
\* read later and an event without a date leaves the entity's date alone, so
\* the entity holds the latest date read, if any.
C3_AbsentDateReplaced ==
    (Alone /\ AdvancesDate) =>
        /\ pc # "raised"
        /\ \A i \in 1..Len(ref) :
              /\ HasName(OneMap, ref[i].name)
              /\ EntityOf(OneMap, ref[i].name).last_played_date
                     = DateStr(LatestOrNone(ref[i].dates))

\* C4: the entity's play_count and is_favorite are those of the first event
\* that reported one.
C4_FirstReportedWins ==
    Alone =>
        \A i \in 1..Len(ref) :
            HasName(OneMap, ref[i].name) =>
                /\ ref[i].play_count # NoneInt =>
                       EntityOf(OneMap, ref[i].name).play_count = ref[i].play_count
                /\ ref[i].is_favorite # NoneStr =>
                       EntityOf(OneMap, ref[i].name).is_favorite = ref[i].is_favorite

NoEpisodeKey(map) ==
    \A i \in 1..Len(map) : map[i].name # EpisodeTitle /\ map[i].id # EpisodeId

WellFormed(map) ==
    \A i \in 1..Len(map) : Truthy(map[i].name) /\ map[i].type \in {"movie", "tv"}

\* C6: events of unrecognized kind and nameless events change nothing: the
\* call ends as it does on the input without them (same map, same result,
\* raising or not alike), and every entity has a name and type movie or tv.
C6_DroppedEventsIgnored ==
    Alone =>
        /\ jfCleanMap = jfMap /\ jfCleanRaised = jfRaised /\ jfCleanResult = jfResult
        /\ pxCleanMap = pxMap /\ pxCleanResult = pxResult
        /\ WellFormed(OneMap)

\* C6 witness: a Plex call returned entities after reading a dropped event.
C6_Witness ==
    service = "plex" /\ pc = "returned" /\ dropped /\ Len(pxMap) > 0

\* C7: on corresponding items that both calls classify alike, with a
\* supported source type, both calls return, and return equal sequences.
C7_SameResults ==
    (service = "both" /\ source_type # "library" /\ ~apart) =>
        /\ ~jfRaised
        /\ pc = "returned" => jfResult = pxResult

LibrarySource == source_type \in {"library_favorites", "library_all"}

\* C23: in a Plex consolidation of library records every entity keeps the
\* last_played_date of the first record of its name, whatever the records
\* merged into it later carry; in a Plex consolidation of history records a
\* later record with a later date advances it.
C23_LibraryKeepsDate ==
    (service = "plex" /\ pc # "idle") =>
        \A i \in 1..Len(ref) :
            /\ HasName(pxMap, ref[i].name)
            /\ LibrarySource =>
                  EntityOf(pxMap, ref[i].name).last_played_date = DateStr(ref[i].first_date)
            /\ (source_type = "history" /\ ref[i].first_date = 9 /\ 10 \in ref[i].dates) =>
                  EntityOf(pxMap, ref[i].name).last_played_date = IsoStr(10)

\* C23 witness: a Plex call on library records returned after merging a
\* record dated 10 into the entity of a record dated 9.
C23_Witness ==
    /\ service = "plex" /\ pc = "returned" /\ LibrarySource
    /\ \E i \in 1..Len(ref) : ref[i].first_date = 9 /\ ref[i].dates = {9, 10}

FirstSeen == [i \in 1..Len(ref) |-> ref[i].name]

\* C29: a call that returns hands back its entities in the order in which
\* their names were first seen in the input; projected with attribute_filter
\* name it returns exactly those names, in that order; without any item read
\* it returns an empty list.
C29_FirstSeenOrder ==
    (Alone /\ pc = "returned") =>
        IF empty THEN OneResult = <<>>
        ELSE IF attribute_filter = "name" THEN OneResult = FirstSeen
        ELSE /\ Len(OneResult) = Len(ref)
             /\ \A i \in 1..Len(ref) : OneResult[i].name = ref[i].name

\* C29 witness: a call projected to names returned B before A, the order in
\* which the two names came in.
C29_Witness ==
    /\ Alone /\ pc = "returned" /\ attribute_filter = "name"
    /\ OneResult = <<"B", "A">>

\* ------------------------------------------------------------- claims: provider
Rejected400 ==
    /\ ~prRaised
    /\ prResult.success = FALSE
    /\ prResult.status_code = 400
    /\ prRequests = <<>>

NoIdentifier ==
    ~Truthy(prArgs.title) /\ ~(TruthyInt(prArgs.tmdb_id) /\ Truthy(prArgs.media_type))

\* C8: lookup_media with neither a title nor both a tmdb_id and a media_type
\* returns success=false, status_code=400 and a non-empty message, and issues
\* no request.
C8_LookupNeedsIdentifier ==
    (prOp = "lookup_media" /\ NoIdentifier) =>
        Rejected400 /\ Truthy(prResult.message)

\* C8 witness: lookup_media was called with a tmdb_id and no media_type
C8_Witness ==
    /\ prOp = "lookup_media" /\ NoIdentifier
    /\ prArgs.tmdb_id = 603 /\ prArgs.media_type = NoneStr

GivenBadType == Truthy(prArgs.media_type) /\ prArgs.media_type \notin {"movie", "tv"}

C10_AddMediaValidatesFirst ==
    (prOp = "add_media"
     /\ (~Truthy(prArgs.media_type) \/ ~Truthy(prArgs.title)
         \/ prArgs.media_type \notin {"movie", "tv"})) => Rejected400

\* C10 witness: add_media was called with a title and mediaType book
C10_Witness ==
    prOp = "add_media" /\ prArgs.media_type = "book" /\ prArgs.title = "Dune"

PassesValidation ==
    Truthy(prArgs.media_type) /\ Truthy(prArgs.title) /\ prArgs.media_type \in {"movie", "tv"}

\* the id of the first result of a lookup that succeeded with results, else none
FirstResultId(response) ==
    IF response.success /\ Len(response.data.results) > 0
    THEN response.data.results[1].id ELSE NoneInt

\* C11: an add_media call that passes validation issues the title lookup and
\* then exactly one POST, whose mediaId is the id of the first lookup result
\* if the lookup succeeded with results and null otherwise; no lookup outcome
\* makes it skip the POST.
C11_LookupThenPost ==
    (prOp = "add_media" /\ PassesValidation) =>
        /\ Len(prRequests) = 2
        /\ prRequests[1] = Request("GET", "search", prArgs.title, NoneInt)
        /\ prRequests[2].method = "POST" /\ prRequests[2].path = "request"
        /\ prRequests[2].media_id = FirstResultId(prResponses[1])

\* C12: lookup_media, add_media and get_quality_profiles return an APIResult
\* and never raise, whatever the server answers.
C12_NeverRaises ==
    prOp \in {"lookup_media", "add_media", "get_quality_profiles"} =>
        ~prRaised /\ prResult.success \in BOOLEAN

\* C13: every APIResult an operation returns has no error when success is
\* true and a non-empty message when success is false.
C13_ResultInvariant ==
    (prOp # "none" /\ ~prRaised) =>
        /\ prResult.success => prResult.error = NoneStr
        /\ ~prResult.success => Truthy(prResult.message)

\* C13 witness: get_users turned a successful answer without a mapping into
\* a failure of its own
C13_Witness ==
    /\ prOp = "get_users" /\ ~prRaised
    /\ prResponses[1].success /\ ~prResult.success

\* C25: get_quality_profiles always returns success with an empty list as
\* data and a non-empty message, and issues no network request.
C25_ProfilesNotApplicable ==
    prOp = "get_quality_profiles" =>
        /\ ~prRaised
        /\ prResult.success
        /\ prResult.data.kind = "list" /\ prResult.data.results = <<>>
        /\ Truthy(prResult.message)
        /\ prRequests = <<>>

\* C25 witness: get_quality_profiles was called and returned
C25_Witness ==
    prOp = "get_quality_profiles" /\ ~prRaised /\ prResult.data.kind = "list"

\* ------------------------------------------------------------- claims: source adapters
\* the service cannot be called as configured: Jellyfin without URL or key,
\* Plex without a connected server, a user's records without a usable user id
Misconfigured ==
    IF adCall.service = "jellyfin"
    THEN \/ ~Truthy(adCall.url) \/ ~Truthy(adCall.key)
         \/ (adCall.method \in {"get_recently_watched", "get_favorites"}
             /\ ~Truthy(adCall.user_id))
    ELSE \/ ~adCall.connected
         \/ (adCall.method = "get_recently_watched"
             /\ (~Truthy(adCall.user_id) \/ ~IsIntString(adCall.user_id)))

CallFailed == adAnswer.outcome # "ok"
FetchMethods == {"get_recently_watched", "get_favorites", "get_all_items"}
NoHistoryFound ==
    /\ adCall.service = "plex" /\ adCall.method = "get_recently_watched"
    /\ adAnswer.outcome = "not_found"

FilteredKeepsNull ==
    adCall.method = "get_all_items_filtered" =>
        /\ adResult.kind = "null" <=> adItems.kind = "null"
        /\ adItems = ListOf(<<>>) => adResult = ListOf(<<>>)

Scanned == MapSeq(adAnswer.events, LibraryItem)
Favourite(item) ==
    item.cls \in {"Movie", "Show"} /\ item.userRating # NoneInt /\ item.userRating >= 9
FavouriteIdx == {j \in 1..Len(Scanned) : Favourite(Scanned[j])}
GivenLimit == IF adCall.limit = NoneInt THEN PlexDefaultLimit ELSE adCall.limit

\* C30: Plex.get_favorites returns null when the server is not connected or
\* the scan fails; otherwise a list of at most limit items (the instance
\* default when no limit is given), each a Movie or Show rated 9 or more,
\* namely the first favourites of the library in section order, all of them
\* when they are fewer than the limit.
C30_FavoritesWithinLimit ==
    (adCall.service = "plex" /\ adCall.method = "get_favorites") =>
        IF ~adCall.connected \/ adAnswer.outcome # "ok" THEN adResult = Null
        ELSE LET items == adResult.items IN
             /\ adResult.kind = "list"
             /\ Len(items) <= GivenLimit
             /\ \A i \in 1..Len(items) : Favourite(items[i])
             /\ \E f \in [1..Len(items) -> 1..Len(Scanned)] :
                   /\ \A i, j \in 1..Len(items) : i < j => f[i] < f[j]
                   /\ \A i \in 1..Len(items) : items[i] = Scanned[f[i]] /\ f[i] \in FavouriteIdx
                   /\ \A j \in FavouriteIdx :
                         \/ \E i \in 1..Len(items) : f[i] = j
                         \/ /\ Len(items) = GivenLimit
                            /\ \A i \in 1..Len(items) : f[i] < j

\* C30 witness: with limit 1 and a library whose first item is no favourite
\* and which holds two favourites, get_favorites returned the first of them.
C30_Witness ==
    /\ adCall.service = "plex" /\ adCall.method = "get_favorites"
    /\ adCall.connected /\ adAnswer.outcome = "ok" /\ adCall.limit = 1
    /\ Cardinality(FavouriteIdx) = 2 /\ 1 \notin FavouriteIdx
    /\ Len(adResult.items) = 1

\* ------------------------------------------------------------- claims: schedules
LiveJobs == {jobs[i] : i \in 1..Len(jobs)}
EnabledEntries == {Job(schedules[i]) : i \in {j \in 1..Len(schedules) : schedules[j].enabled}}
Answered200 == lastResponse.status = 200
JobOf(job_id) == jobs[CHOOSE i \in 1..Len(jobs) : jobs[i].id = job_id]

\* C15: the live scheduler never holds two jobs of one job_id, and a
\* schedule request for a job_id that is live leaves that one job with the
\* trigger of the request.
C15_OneJobPerId ==
    /\ \A i, j \in 1..Len(jobs) : jobs[i].id = jobs[j].id => i = j
    /\ (lastRequest.op = "update" /\ Answered200 /\ lastRequest.enabled) =>
          /\ HasJob(jobs, lastRequest.job_id)
          /\ JobOf(lastRequest.job_id).trigger
                 = get_schedule_by_search_id(schedules, lastRequest.search_id).hour

\* C15 witness: an update of an enabled schedule was answered 200 after its
\* reload re-registered a job_id that was live
C15_Witness ==
    /\ lastRequest.op = "update" /\ Answered200
    /\ lastRequest.before = "enabled" /\ lastRequest.enabled
    /\ replaced /\ Len(jobs) = 2

SaysNotFound(message) == Contains(Lower(message), "not found")

\* C18: a manual trigger of a job_id that is not live is answered 404; a
\* trigger that reports success is answered with that result; 500 answers
\* only a failure of a live job whose message does not say not found.
C18_TriggerNotFound ==
    lastRequest.op = "trigger" =>
        /\ ~HasJob(jobs, lastRequest.job_id) =>
              lastResponse.status = 404 /\ SaysNotFound(lastResponse.detail)
        /\ Answered200 =>
              /\ lastResponse.success /\ lastResponse.detail = "Job triggered"
              /\ HasJob(jobs, lastRequest.job_id)
        /\ lastResponse.status = 500 =>
              HasJob(jobs, lastRequest.job_id) /\ ~SaysNotFound(lastResponse.detail)
        /\ lastResponse.status \in {200, 404, 500}

\* C18 witness: the job of a disabled schedule was triggered and not found
C18_Witness ==
    /\ lastRequest.op = "trigger" /\ lastResponse.status = 404
    /\ \E search_id \in SearchIds :
          /\ lastRequest.job_id = JobIdOf(search_id)
          /\ Standing(schedules, search_id) = "disabled"

\* C19: no two pipeline cycles of one saved search are in flight at a time.
C19_OneCyclePerSearch ==
    \A search_id \in SearchIds : inFlight[search_id] <= 1

\* C20: startup_event never raises: when starting the scheduler or loading
\* the schedules fails, the failure is logged and the application serves.
C20_StartupFailureCaught ==
    /\ appPhase # "crashed"
    /\ (lastRequest = NoRequest /\ lastReload = "failed") =>
          appPhase = "serving" /\ startupLog = "error"

\* C20 witness: the application serves after a startup whose scheduler
\* failed, with enabled schedules in the table
C20_Witness ==
    /\ appPhase = "serving" /\ lastRequest = NoRequest
    /\ lastReload = "failed" /\ startupLog = "error"
    /\ EnabledEntries # {}

\* C27: the schedule table never holds two rows of one search_id; every row
\* has func_name get_similar_media, the job_id derived from its search_id and
\* kwargs naming that search_id, so a PUT for a search that has a row
\* updates that row and leaves its job_id alone.
C27_OneRowPerSearch ==
    /\ \A i, j \in 1..Len(schedules) :
          schedules[i].search_id = schedules[j].search_id => i = j
    /\ \A i \in 1..Len(schedules) :
          /\ schedules[i].func_name = "get_similar_media"
          /\ schedules[i].job_id = "get_similar_media_" \o ToString(schedules[i].search_id)
          /\ schedules[i].kwargs.search_id = schedules[i].search_id
    /\ (lastRequest.op = "update" /\ Answered200) =>
          /\ Standing(schedules, lastRequest.search_id) # "absent"
          /\ get_schedule_by_search_id(schedules, lastRequest.search_id).enabled
                 = lastRequest.enabled

\* C27 witness: a PUT for a search that had a row was answered 200, with the
\* rows of two searches in the table
C27_Witness ==
    /\ lastRequest.op = "update" /\ Answered200 /\ lastRequest.before # "absent"
    /\ Len(schedules) = 2

WriteFailed ==
    lastRequest'.op = "update" /\ lastResponse'.detail = "Failed to update schedule"
DeleteMissed ==
    /\ lastRequest'.op = "delete" /\ lastRequest'.before = "absent"
    /\ lastResponse'.detail # "delete failed"

\* C28: a create or update whose write gives no id is answered 500 and a
\* delete that finds no row is answered success=false; neither reloads the
\* schedules: the table, the job registry and the outcome of the last reload
\* stay as they were.
C28_FailedWriteNoReload ==
    [][(appPhase = "serving" /\ (WriteFailed \/ DeleteMissed)) =>
          /\ jobs' = jobs /\ schedules' = schedules /\ lastReload' = lastReload
          /\ WriteFailed => lastResponse'.status = 500
          /\ DeleteMissed => lastResponse'.status = 200 /\ ~lastResponse'.success]_vars

\* C28 witness: an update whose write failed was answered 500 while the
\* registry lacked the job of an enabled row
C28_Witness ==
    /\ lastRequest.op = "update" /\ lastResponse.detail = "Failed to update schedule"
    /\ lastResponse.status = 500
    /\ appPhase = "serving" /\ LiveJobs # EnabledEntries

\* ------------------------------------------------------------- claims: API handlers
NotFoundOps ==
    {"get_search", "update_search", "delete_search", "delete_media_item",
     "gemini_similar_media_by_search"}

\* C21: a request to GET, PUT or DELETE /search/{id}, DELETE /media/{id} or
\* GET /gemini/similar_media/search/{id} that names a search or media item
\* which does not exist is answered 404, not 500.
C21_AbsentIs404 ==
    (apiRequest.op \in NotFoundOps /\ ~apiRequest.present
        /\ apiResponse.detail # "database error") =>
            apiResponse.status = 404

\* C22: between startup and shutdown one AiArr object exists, the one in
\* _ai_arr_instance, and every handler operates on it.
C22_OneInstance ==
    apiUp =>
        /\ instance # NoInstance
        /\ made = 1
        /\ apiRequest.op # "none" => used = instance

\* C26: POST /request/{tmdb_id} answers a failed APIResult with the
\* APIResult's status_code (500 when that is no integer) and its error
\* detail, and a successful one with its data.
C26_RequestStatusForwarded ==
    (apiRequest.op = "request_media" /\ apiResponse.detail # "request_media failed") =>
        IF apiRequest.result.success
        THEN apiResponse.status = 200 /\ apiResponse.data = apiRequest.result.data
        ELSE /\ apiResponse.status = (IF apiRequest.result.status_code # NoneInt
                                      THEN apiRequest.result.status_code ELSE 500)
             /\ apiResponse.detail = apiRequest.result.error

\* ------------------------------------------------------------- claims: recommendation cycle
Failed(outcome) == outcome.status \in {"lookup_failed", "request_failed"}

\* C24: the outcome of every title processed is recorded, in the order of
\* the candidates, whether it failed or not; a cycle that ends with a
\* terminal error has processed no title; and a cycle that has candidate
\* titles to process ends having processed every one of them.
C24_EveryTitleProcessed ==
    /\ [](/\ Len(runOutcomes) <= Len(runCandidates)
          /\ \A i \in 1..Len(runOutcomes) : runOutcomes[i].title = runCandidates[i]
          /\ runPhase = "error" <=> runError # NoneStr
          /\ runPhase = "error" => runOutcomes = <<>>
          /\ runPhase = "done" => Len(runOutcomes) = Len(runCandidates))
    /\ (runPhase = "titles") ~> (runPhase = "done" /\ Len(runOutcomes) = Len(runCandidates))

\* C24 witness: a cycle ended after a title whose lookup failed and a later
\* title that was requested
C24_Witness ==
    /\ runPhase = "done" /\ Len(runOutcomes) >= 2
    /\ Failed(runOutcomes[1])
    /\ runOutcomes[Len(runOutcomes)].status = "requested"

====
